---------------------------- MODULE Spec2Model ----------------------------
(***************************************************************************)
(* Change coordinator of the request collection (FileSyncService,          *)
(* src/src/ui/uiController.ts): debounced and immediate saves, the         *)
(* self-write suppression set, and the file watcher handlers.              *)
(*                                                                         *)
(* A path is a tuple <<folder, base name, extension>>.  The content that   *)
(* a save writes is identified by the number of the call that carried the  *)
(* model, so that two calls never write the same content.                  *)
(***************************************************************************)
EXTENDS Integers, Sequences, FiniteSets

\* Bounds of the model: the calls of saveRequest and createRequest between two
\* quiet moments, without and with other processes changing the files.
MaxCalls == 2
MaxWatchedCalls == 1

ENVIRONMENTS_FOLDER == "environments"

\* Files matched by the watcher's pattern **/*.{http,rest,json,env}.
LoginFile    == <<"api", "login", ".http">>
UsersFile    == <<"api", "users", ".rest">>
EnvFile      == <<ENVIRONMENTS_FOLDER, "dev", ".env">>
MetaFile     == <<"api", "_collection", ".json">>
RequestFiles == {LoginFile, UsersFile}
OtherFiles   == {EnvFile, MetaFile}
WatchedFiles == RequestFiles \cup OtherFiles

NoPath == << >>

VARIABLES
    writeDebounceTimers, \* path -> call whose timer handle the map holds (0: none)
    pendingWrites,       \* set of paths under self-write suppression
    calls,               \* the calls since the last quiet moment, oldest first:
                         \* each holds its debounce timer, its write, its grace timer
    disk,                \* request file -> whether it exists (can be read)
    watcherQueue,        \* file notifications raised and not yet handled, oldest first
    step,                \* what the last operation was and what it produced
    codec,               \* a request model on its way through generate and parse
    tree,                \* a root folder and the collection trees parsed from it
    editor,              \* the request editor: its cancellation state and its executions
    explorer             \* the collections panel: the user's actions and what they showed

vars == <<writeDebounceTimers, pendingWrites, calls, disk, watcherQueue, step, codec, tree, editor, explorer>>

coordinator == <<writeDebounceTimers, pendingWrites, calls, disk, watcherQueue>>

-----------------------------------------------------------------------------
(* File locations as they reach saveRequest: a live Uri, or plain data.    *)

NoString == [scheme |-> "other", path |-> NoPath]

Absent == [defined |-> FALSE, live |-> FALSE, fsPath |-> NoPath, path |-> NoPath,
           str |-> NoString]

LiveUri(p) == [defined |-> TRUE, live |-> TRUE, fsPath |-> p, path |-> p,
               str |-> [scheme |-> "file", path |-> p]]

\* A Uri serialized through the webview: the fields survive, the methods do not.
PlainFsPath(p) == [defined |-> TRUE, live |-> FALSE, fsPath |-> p, path |-> p,
                   str |-> NoString]

PlainPath(p) == [defined |-> TRUE, live |-> FALSE, fsPath |-> NoPath, path |-> p,
                 str |-> NoString]

PlainEmpty == [defined |-> TRUE, live |-> FALSE, fsPath |-> NoPath, path |-> NoPath,
               str |-> NoString]

FileString(p) == [defined |-> TRUE, live |-> FALSE, fsPath |-> NoPath, path |-> NoPath,
                  str |-> [scheme |-> "file", path |-> p]]

OtherString(p) == [defined |-> TRUE, live |-> FALSE, fsPath |-> NoPath, path |-> NoPath,
                   str |-> [scheme |-> "other", path |-> p]]

Locations ==
    {Absent, PlainEmpty}
    \cup { LiveUri(p) : p \in RequestFiles }
    \cup { PlainFsPath(p) : p \in RequestFiles }
    \cup { PlainPath(p) : p \in RequestFiles }
    \cup { FileString(p) : p \in RequestFiles }
    \cup { OtherString(p) : p \in RequestFiles }

InvalidUri == <<"Invalid URI object">>

ensureUriNoThrow(uri) ==
    IF uri.live THEN uri.path
    ELSE LET fsPath == IF uri.fsPath # NoPath THEN uri.fsPath ELSE uri.path
         IN  IF fsPath # NoPath THEN fsPath
             ELSE CHOOSE p \in RequestFiles : TRUE

ensureUri(uri) ==
    IF uri.live THEN uri.path
    ELSE LET fsPath == IF uri.fsPath # NoPath THEN uri.fsPath ELSE uri.path
         IN  IF fsPath # NoPath THEN fsPath
             ELSE IF uri.str.scheme = "file" THEN uri.str.path
             ELSE InvalidUri

isHttpFile(uri) == uri[Len(uri)] \in {".http", ".rest"}

isEnvironmentFileNoDot(uri) ==
    /\ \E i \in 1..Len(uri) : uri[i] = ENVIRONMENTS_FOLDER
    /\ uri[Len(uri)] = "env"

isEnvironmentFile(uri) ==
    /\ \E i \in 1..Len(uri) : uri[i] = ENVIRONMENTS_FOLDER
    /\ uri[Len(uri)] = ".env"


-----------------------------------------------------------------------------
(* Calls, notifications and the record of the last step.                   *)
(*                                                                         *)
(* A call is named by its place in calls.  The content a call writes is    *)
(* the model passed to that call.  supersededBy is the later save for the  *)
(* same path that arrived while the call's timer was armed (0: none), and  *)
(* pendingAtDispose tells that the timer was armed when dispose ran.       *)
(* onDisk tells that the file holds the content this call wrote: the write *)
(* that completes last replaces the content of the file.  pendingAtDelete  *)
(* tells that the timer was armed when the file of the call was deleted.   *)

NewCall(kind, p) ==
    [kind |-> kind, path |-> p, timer |-> "none", write |-> "none", grace |-> "none",
     returned |-> FALSE, startedAtReturn |-> FALSE, nwrites |-> 0, supersededBy |-> 0,
     pendingAtDispose |-> FALSE, onDisk |-> FALSE, pendingAtDelete |-> FALSE]

CallIds == 1..Len(calls)

\* A notification: origin is the kind of the call whose write raised it and call
\* is that call, or "external" and 0 for a change by another process.
\* afterOwnWrite: the change was made once a write of the coordinator to the same
\* path had completed.
Notification(uri, type, origin, call, after) ==
    [uri |-> uri, type |-> type, origin |-> origin, call |-> call,
     afterOwnWrite |-> after]

NoNotification == Notification(NoPath, "none", "none", 0, FALSE)

Event(name, uri) == [event |-> name, uri |-> uri]

\* What the last operation let its caller and the event listeners see: the error
\* it raised, the notification it handled, the events it fired, and what it
\* wrote to the log.
Step(outcome, notif, events) ==
    [outcome |-> outcome, notif |-> notif, events |-> events, log |-> << >>]

Log(level, message, uri) == [level |-> level, message |-> message, uri |-> uri]

Quiet == Step("ok", NoNotification, << >>)

NoTimers == [p \in RequestFiles |-> 0]

Init ==
    /\ writeDebounceTimers = NoTimers
    /\ pendingWrites = {}
    /\ calls = << >>
    /\ disk = [p \in RequestFiles |-> TRUE]
    /\ watcherQueue = << >>
    /\ step = Quiet
    /\ editor = << >>
    /\ explorer = << >>
    /\ codec = << >>
    /\ tree = << >>

\* A call's work is over: its timer was cleared, or its write has settled and its
\* grace timer has fired.
Over(c) ==
    \/ c.timer = "cleared"
    \/ c.write \in {"done", "failed"} /\ c.grace = "fired"

\* A quiet moment: the work of every call is over and the notifications of their
\* writes have been handled.  The calls are then forgotten, and with them the
\* handles of dead timers that the map still holds.
QuietMoment(cs, queue) ==
    /\ \A i \in 1..Len(cs) : Over(cs[i])
    /\ \A k \in 1..Len(queue) : queue[k].origin = "external"

-----------------------------------------------------------------------------
(* refreshCollections and refreshEnvironments always fire their event: the *)
(* walk and the directory listing catch their own failures.                *)

refreshCollections == << Event("collectionsChanged", NoPath) >>

refreshEnvironments == << Event("environmentsChanged", NoPath) >>

\* parseHttpFileToRequest: undefined (no event) when the file cannot be read.
parseHttpFileToRequest(uri) == disk[uri]

-----------------------------------------------------------------------------
(* saveRequest                                                             *)

\* writeDebounceTimers.get(uriString), clearTimeout: only an armed timer changes.
clearExistingNever(cs, existingTimer, immediate) == cs

clearExistingDebouncedOnly(cs, existingTimer, immediate) ==
    IF ~immediate /\ existingTimer # 0 /\ cs[existingTimer].timer = "armed"
    THEN [cs EXCEPT ![existingTimer].timer = "cleared"]
    ELSE cs

clearExisting(cs, existingTimer, immediate) ==
    IF existingTimer # 0 /\ cs[existingTimer].timer = "armed"
    THEN [cs EXCEPT ![existingTimer].timer = "cleared"]
    ELSE cs

\* The branch of saveRequest that awaits writeRequest.
writesNowInverted(immediate) == ~immediate

writesNow(immediate) == immediate

writeRequestStartCounted(cs, id) ==
    [cs EXCEPT ![id].nwrites = @ + 1]

\* The synchronous part of writeRequest: suppress the path, start the write.
writeRequestStart(cs, id) ==
    [cs EXCEPT ![id].write = "inflight", ![id].nwrites = @ + 1]

\* The calls whose timer was armed for p when call id arrived are superseded by it.
Supersede(cs, p, id) ==
    [i \in 1..Len(cs) |->
        IF calls[i].path = p /\ calls[i].timer = "armed"
        THEN [cs[i] EXCEPT !.supersededBy = id]
        ELSE cs[i]]

saveRequestThrows(request, immediate) ==
    /\ \/ ~request.defined
       \/ ensureUri(request) = InvalidUri
    /\ step' = Step(IF ~request.defined THEN "Request has no file URI"
                    ELSE "Invalid URI object", NoNotification, << >>)
    /\ UNCHANGED coordinator

saveRequestAccepted(request, immediate) ==
    /\ request.defined
    /\ ensureUri(request) # InvalidUri
    /\ Len(calls) < MaxCalls
    /\ LET uriString == ensureUri(request)
           id == Len(calls) + 1
           kind == IF immediate THEN "immediate" ELSE "debounced"
           cleared == clearExisting(calls, writeDebounceTimers[uriString], immediate)
           added == Append(Supersede(cleared, uriString, id), NewCall(kind, uriString))
       IN  IF writesNow(immediate)
           THEN /\ calls' = writeRequestStart(added, id)
                /\ pendingWrites' = pendingWrites \cup {uriString}
                /\ UNCHANGED writeDebounceTimers
           ELSE /\ calls' = [added EXCEPT ![id].timer = "armed", ![id].returned = TRUE]
                /\ writeDebounceTimers' = [writeDebounceTimers EXCEPT ![uriString] = id]
                /\ UNCHANGED pendingWrites
    /\ step' = Quiet
    /\ UNCHANGED <<disk, watcherQueue>>

saveRequest(request, immediate) ==
    \/ saveRequestThrows(request, immediate)
    \/ saveRequestAccepted(request, immediate)

\* The debounce timer of call id fires: writeRequest starts, the map entry goes.
debounceTimerFires(id) ==
    /\ calls[id].timer = "armed"
    /\ calls' = writeRequestStart([calls EXCEPT ![id].timer = "fired"], id)
    /\ pendingWrites' = pendingWrites \cup {calls[id].path}
    /\ writeDebounceTimers' = [writeDebounceTimers EXCEPT ![calls[id].path] = 0]
    /\ step' = Quiet
    /\ UNCHANGED <<disk, watcherQueue>>

-----------------------------------------------------------------------------
(* createRequest: writeRequest, then refreshCollections.                   *)

createRequest(fileUri) ==
    /\ fileUri[Len(fileUri)] = ".http"
    /\ Len(calls) < MaxCalls
    /\ calls' = writeRequestStart(Append(calls, NewCall("create", fileUri)),
                                  Len(calls) + 1)
    /\ pendingWrites' = pendingWrites \cup {fileUri}
    /\ step' = Quiet
    /\ UNCHANGED <<writeDebounceTimers, disk, watcherQueue>>

-----------------------------------------------------------------------------
(* writeRequest after the await of fs.writeFile: the finally block arms    *)
(* the grace timer whether the write succeeded or failed, and the awaiting *)
(* caller, if any, continues.                                              *)

\* The try block logs after the write; there is no catch block.
writeRequestLog(ok, fileUri) ==
    IF ok THEN << Log("debug", "Saved request to", fileUri) >> ELSE << >>

\* fs.writeFile resolved: the file holds the content of call id and of no other.
writeFile(cs, id, ok) ==
    [i \in 1..Len(cs) |->
        IF ~ok \/ calls[i].path # calls[id].path THEN cs[i]
        ELSE [cs[i] EXCEPT !.onDisk = (i = id)]]

graceTimerOnSuccessOnly(ok) == IF ok THEN "armed" ELSE "none"

\* The finally block: the grace timer is armed after a write that failed too.
graceTimer(ok) == "armed"

writeSettles(id, ok) ==
    /\ calls[id].write = "inflight"
    /\ LET p == calls[id].path
           c == calls[id]
           awaited == ~c.returned
           settled == [calls EXCEPT
                          ![id].write = IF ok THEN "done" ELSE "failed",
                          ![id].grace = graceTimer(ok),
                          ![id].returned = TRUE,
                          ![id].startedAtReturn = IF awaited THEN TRUE ELSE @]
       IN  /\ calls' = writeFile(settled, id, ok)
           /\ disk' = IF ok THEN [disk EXCEPT ![p] = TRUE] ELSE disk
           /\ watcherQueue' =
                IF ok
                THEN Append(watcherQueue,
                            Notification(p, IF disk[p] THEN "changed" ELSE "created",
                                         c.kind, id, FALSE))
                ELSE watcherQueue
           /\ step' = [Step(IF ~ok /\ awaited THEN "write failed" ELSE "ok", NoNotification,
                            IF ok /\ c.kind = "create" THEN refreshCollections ELSE << >>)
                        EXCEPT !.log = writeRequestLog(ok, p)]
    /\ UNCHANGED <<writeDebounceTimers, pendingWrites>>

\* The 100 ms timer armed by writeRequest's finally block.
graceTimerFires(id) ==
    /\ calls[id].grace = "armed"
    /\ LET after == [calls EXCEPT ![id].grace = "fired"]
       IN  IF QuietMoment(after, watcherQueue)
           THEN calls' = << >> /\ writeDebounceTimers' = NoTimers
           ELSE calls' = after /\ UNCHANGED writeDebounceTimers
    /\ pendingWrites' = pendingWrites \ {calls[id].path}
    /\ step' = Quiet
    /\ UNCHANGED <<disk, watcherQueue>>

-----------------------------------------------------------------------------
(* dispose: clearTimeout for every timer of the map, then the map is       *)
(* emptied.  Writes in flight and grace timers are left alone.             *)

clearNoTimers(cs) == cs

\* clearTimeout for every value of writeDebounceTimers.
clearAllTimers(cs) ==
    [i \in 1..Len(cs) |->
        IF writeDebounceTimers[cs[i].path] = i /\ cs[i].timer = "armed"
        THEN [cs[i] EXCEPT !.timer = "cleared"]
        ELSE cs[i]]

\* The calls whose timer is armed when dispose runs.
PendingAtDispose(cs) ==
    [i \in 1..Len(cs) |->
        IF calls[i].timer = "armed"
        THEN [cs[i] EXCEPT !.pendingAtDispose = TRUE]
        ELSE cs[i]]

dispose ==
    /\ LET after == PendingAtDispose(clearAllTimers(calls))
       IN  IF QuietMoment(after, watcherQueue)
           THEN calls' = << >>
           ELSE calls' = after
    /\ writeDebounceTimers' = NoTimers
    /\ step' = Quiet
    /\ UNCHANGED <<pendingWrites, disk, watcherQueue>>

-----------------------------------------------------------------------------
(* The watcher handlers.  Each returns the events the handler fires.       *)

onFileCreated(uri) ==
    IF uri \in pendingWrites THEN << >>
    ELSE IF isEnvironmentFile(uri) THEN refreshEnvironments
    ELSE refreshCollections

onFileChangedRescans(uri) ==
    IF uri \in pendingWrites THEN << >>
    ELSE IF isEnvironmentFile(uri) THEN refreshEnvironments
    ELSE refreshCollections

onFileChanged(uri) ==
    IF uri \in pendingWrites THEN << >>
    ELSE IF isEnvironmentFile(uri) THEN refreshEnvironments
    ELSE IF isHttpFile(uri)
         THEN IF parseHttpFileToRequest(uri)
              THEN << Event("requestChanged", uri) >>
              ELSE << >>
    ELSE refreshCollections

onFileDeletedSuppressed(uri) ==
    IF uri \in pendingWrites THEN << >>
    ELSE IF isEnvironmentFile(uri) THEN refreshEnvironments
    ELSE refreshCollections

onFileDeleted(uri) ==
    IF isEnvironmentFile(uri) THEN refreshEnvironments
    ELSE refreshCollections

\* The watcher delivers the oldest notification to its handler.
watcherDelivers ==
    /\ watcherQueue # << >>
    /\ LET n == Head(watcherQueue)
           events == CASE n.type = "created" -> onFileCreated(n.uri)
                       [] n.type = "changed" -> onFileChanged(n.uri)
                       [] OTHER              -> onFileDeleted(n.uri)
       IN  step' = Step("ok", n, events)
    /\ watcherQueue' = Tail(watcherQueue)
    /\ IF calls # << >> /\ QuietMoment(calls, Tail(watcherQueue))
       THEN calls' = << >> /\ writeDebounceTimers' = NoTimers
       ELSE UNCHANGED <<calls, writeDebounceTimers>>
    /\ UNCHANGED <<pendingWrites, disk>>

-----------------------------------------------------------------------------
(* Other processes change the watched files.  A file is written once the   *)
(* watcher has reported the changes before it.                             *)

OwnWriteCompleted(p) == \E c \in CallIds : calls[c].path = p /\ calls[c].write = "done"

\* A request file is written or created.
externalWrite(p) ==
    /\ watcherQueue = << >>
    /\ disk' = [disk EXCEPT ![p] = TRUE]
    /\ watcherQueue' =
         Append(watcherQueue,
                Notification(p, IF disk[p] THEN "changed" ELSE "created", "external",
                             0, OwnWriteCompleted(p)))
    /\ step' = Quiet
    /\ UNCHANGED <<writeDebounceTimers, pendingWrites, calls>>

\* A request file is deleted, also right after it was written, before the watcher
\* has reported the write.
externalDelete(p) ==
    /\ disk[p]
    /\ IF watcherQueue = << >> THEN TRUE
       ELSE watcherQueue[Len(watcherQueue)].uri = p
    /\ disk' = [disk EXCEPT ![p] = FALSE]
    /\ watcherQueue' = Append(watcherQueue,
                              Notification(p, "deleted", "external", 0, OwnWriteCompleted(p)))
    /\ step' = Quiet
    /\ UNCHANGED <<writeDebounceTimers, pendingWrites, calls>>

\* A file that is no request file is created, changed or deleted.
externalOther(p, type) ==
    /\ watcherQueue = << >>
    /\ watcherQueue' = Append(watcherQueue, Notification(p, type, "external", 0, FALSE))
    /\ step' = Quiet
    /\ UNCHANGED <<writeDebounceTimers, pendingWrites, calls, disk>>

-----------------------------------------------------------------------------
(* Spec: the coordinator and the watcher reporting the coordinator's own   *)
(* writes.  WatchSpec: the same with other processes changing the files.   *)

Next ==
    \/ \E request \in Locations, immediate \in BOOLEAN : saveRequest(request, immediate) /\ UNCHANGED <<codec, tree, editor, explorer>>
    \/ \E id \in CallIds : debounceTimerFires(id) /\ UNCHANGED <<codec, tree, editor, explorer>>
    \/ \E p \in RequestFiles : createRequest(p) /\ UNCHANGED <<codec, tree, editor, explorer>>
    \/ \E id \in CallIds, ok \in BOOLEAN : writeSettles(id, ok) /\ UNCHANGED <<codec, tree, editor, explorer>>
    \/ \E id \in CallIds : graceTimerFires(id) /\ UNCHANGED <<codec, tree, editor, explorer>>
    \/ watcherDelivers /\ UNCHANGED <<codec, tree, editor, explorer>>
    \/ dispose /\ UNCHANGED <<codec, tree, editor, explorer>>

Spec == Init /\ [][Next]_vars

\* Every write that was started settles, and every timer that is armed and not
\* cleared fires.
Fairness ==
    \A id \in 1..MaxCalls :
        /\ WF_vars(/\ id \in CallIds /\ UNCHANGED <<codec, tree, editor, explorer>>
                   /\ \E ok \in BOOLEAN : writeSettles(id, ok))
        /\ WF_vars(id \in CallIds /\ UNCHANGED <<codec, tree, editor, explorer>> /\ graceTimerFires(id))
        /\ WF_vars(id \in CallIds /\ UNCHANGED <<codec, tree, editor, explorer>> /\ debounceTimerFires(id))

\* The steps of Next with the saves that are accepted: a save that throws leaves
\* the coordinator as it was.
LiveNext ==
    \/ \E p \in RequestFiles, immediate \in BOOLEAN : saveRequest(LiveUri(p), immediate) /\ UNCHANGED <<codec, tree, editor, explorer>>
    \/ \E id \in CallIds : debounceTimerFires(id) /\ UNCHANGED <<codec, tree, editor, explorer>>
    \/ \E p \in RequestFiles : createRequest(p) /\ UNCHANGED <<codec, tree, editor, explorer>>
    \/ \E id \in CallIds, ok \in BOOLEAN : writeSettles(id, ok) /\ UNCHANGED <<codec, tree, editor, explorer>>
    \/ \E id \in CallIds : graceTimerFires(id) /\ UNCHANGED <<codec, tree, editor, explorer>>
    \/ watcherDelivers /\ UNCHANGED <<codec, tree, editor, explorer>>
    \/ dispose /\ UNCHANGED <<codec, tree, editor, explorer>>

LiveSpec == Init /\ [][LiveNext]_vars /\ Fairness

WatchNext ==
    \/ /\ Len(calls) < MaxWatchedCalls
       /\ \E request \in Locations, immediate \in BOOLEAN : saveRequest(request, immediate) /\ UNCHANGED <<codec, tree, editor, explorer>>
    \/ \E id \in CallIds : debounceTimerFires(id) /\ UNCHANGED <<codec, tree, editor, explorer>>
    \/ /\ Len(calls) < MaxWatchedCalls
       /\ \E p \in RequestFiles : createRequest(p) /\ UNCHANGED <<codec, tree, editor, explorer>>
    \/ \E id \in CallIds, ok \in BOOLEAN : writeSettles(id, ok) /\ UNCHANGED <<codec, tree, editor, explorer>>
    \/ \E id \in CallIds : graceTimerFires(id) /\ UNCHANGED <<codec, tree, editor, explorer>>
    \/ watcherDelivers /\ UNCHANGED <<codec, tree, editor, explorer>>
    \/ \E p \in RequestFiles : externalWrite(p) /\ UNCHANGED <<codec, tree, editor, explorer>>
    \/ \E p \in RequestFiles : externalDelete(p) /\ UNCHANGED <<codec, tree, editor, explorer>>
    \/ \E p \in OtherFiles, type \in {"created", "changed", "deleted"} :
          externalOther(p, type) /\ UNCHANGED <<codec, tree, editor, explorer>>

WatchSpec == Init /\ [][WatchNext]_vars

-----------------------------------------------------------------------------
(* refreshCollections in its steps: the handler of a notification calls    *)
(* it, parseCollectionTree reads the folders, and the event is fired when  *)
(* the walk is over.  Nothing orders two calls that are under way.  tree   *)
(* holds the calls, oldest first, each with the files its walk found, and  *)
(* the files of the tree carried by the last collectionsChanged event.     *)

MaxScans == 2

Scan(stage, found) == [stage |-> stage, found |-> found]

RescanInit ==
    /\ writeDebounceTimers = NoTimers
    /\ pendingWrites = {}
    /\ calls = << >>
    /\ disk = [p \in RequestFiles |-> TRUE]
    /\ watcherQueue = << >>
    /\ step = Quiet
    /\ editor = << >>
    /\ explorer = << >>
    /\ codec = << >>
    /\ tree = [scans |-> << >>, collectionsChanged |-> [p \in RequestFiles |-> TRUE]]

\* The watcher delivers the oldest notification: its handler runs up to the
\* await of parseCollectionTree, if it calls refreshCollections.
refreshCollectionsStarts ==
    /\ watcherQueue # << >>
    /\ Len(tree.scans) < MaxScans
    /\ LET n == Head(watcherQueue)
           events == CASE n.type = "created" -> onFileCreated(n.uri)
                       [] n.type = "changed" -> onFileChanged(n.uri)
                       [] OTHER              -> onFileDeleted(n.uri)
       IN  /\ tree' = IF events = refreshCollections
                      THEN [tree EXCEPT !.scans = Append(@, Scan("walking", disk))]
                      ELSE tree
           /\ step' = Step("ok", n, IF events = refreshCollections THEN << >> ELSE events)
    /\ watcherQueue' = Tail(watcherQueue)
    /\ UNCHANGED <<writeDebounceTimers, pendingWrites, calls, disk>>

\* parseCollectionTree reads the folders: the files it finds are those present.
parseCollectionTreeReads(k) ==
    /\ k \in 1..Len(tree.scans)
    /\ tree.scans[k].stage = "walking"
    /\ tree' = [tree EXCEPT !.scans[k] = Scan("read", disk)]
    /\ step' = Quiet
    /\ UNCHANGED coordinator

\* The walk of call k is over: collectionsChanged is fired with its tree.
refreshCollectionsFires(k) ==
    /\ k \in 1..Len(tree.scans)
    /\ tree.scans[k].stage = "read"
    /\ tree' = [tree EXCEPT !.scans[k].stage = "fired",
                            !.collectionsChanged = tree.scans[k].found]
    /\ step' = Step("ok", NoNotification, refreshCollections)
    /\ UNCHANGED coordinator

RescanNext ==
    \/ \E p \in RequestFiles : externalWrite(p) /\ UNCHANGED <<codec, tree, editor, explorer>>
    \/ \E p \in RequestFiles : externalDelete(p) /\ UNCHANGED <<codec, tree, editor, explorer>>
    \/ refreshCollectionsStarts /\ UNCHANGED <<codec, editor, explorer>>
    \/ \E k \in 1..MaxScans : parseCollectionTreeReads(k) /\ UNCHANGED <<codec, editor, explorer>>
    \/ \E k \in 1..MaxScans : refreshCollectionsFires(k) /\ UNCHANGED <<codec, editor, explorer>>

RescanSpec == RescanInit /\ [][RescanNext]_vars

-----------------------------------------------------------------------------
(* Request text (HttpGenerator, CollectionParser in src/unnamed/part_001). *)
(*                                                                         *)
(* A string is a sequence of lexemes: the punctuation, blanks and keywords *)
(* the generator writes and the parser tests, and words that neither of    *)
(* them looks into.  NL is the line feed.                                  *)

NL == "\n"
SP == " "

Undefined == <<"<undefined>">>

\* A JavaScript truthiness test on an optional string.
Truthy(str) == str # Undefined /\ str # << >>

RECURSIVE TrimStart(_)
TrimStart(str) ==
    IF str # << >> /\ Head(str) \in {SP, NL} THEN TrimStart(Tail(str)) ELSE str

RECURSIVE TrimEnd(_)
TrimEnd(str) ==
    IF str # << >> /\ str[Len(str)] \in {SP, NL}
    THEN TrimEnd(SubSeq(str, 1, Len(str) - 1))
    ELSE str

trim(str) == TrimEnd(TrimStart(str))

startsWith(str, prefix) ==
    /\ Len(prefix) <= Len(str)
    /\ SubSeq(str, 1, Len(prefix)) = prefix

includes(str, pattern) ==
    \E i \in 1..(Len(str) + 1 - Len(pattern)) :
        SubSeq(str, i, i + Len(pattern) - 1) = pattern

\* indexOf for one lexeme: 0 when it does not occur.
indexOf(str, lexeme) ==
    IF \E i \in 1..Len(str) : str[i] = lexeme
    THEN CHOOSE i \in 1..Len(str) :
            /\ str[i] = lexeme
            /\ \A j \in 1..(i - 1) : str[j] # lexeme
    ELSE 0

slice(str, from) == SubSeq(str, from, Len(str))

RECURSIVE split(_, _)
split(str, separator) ==
    LET i == indexOf(str, separator)
    IN  IF i = 0 THEN << str >>
        ELSE << SubSeq(str, 1, i - 1) >> \o split(slice(str, i + 1), separator)

RECURSIVE join(_, _)
join(strs, separator) ==
    IF strs = << >> THEN << >>
    ELSE IF Len(strs) = 1 THEN strs[1]
    ELSE strs[1] \o separator \o join(Tail(strs), separator)

-----------------------------------------------------------------------------
(* UIRequest and HttpGenerator.generate.                                   *)

HttpMethod == {"GET", "POST", "PUT", "DELETE", "PATCH", "HEAD", "OPTIONS", "CONNECT", "TRACE"}

Entry(key, value, enabled) == [key |-> key, value |-> value, enabled |-> enabled]

\* A request body.  graphql is << >> or one record of the query and its variables.
Body(type, content, formData, graphql) ==
    [type |-> type, content |-> content, formData |-> formData, graphql |-> graphql]

NoBody == Body("none", Undefined, << >>, << >>)

Graphql(query, variables) == << [query |-> query, variables |-> variables] >>

\* encodeURIComponent, lexeme by lexeme.
encodeURIComponent(str) ==
    [i \in 1..Len(str) |->
        CASE str[i] = SP  -> "%20"
          [] str[i] = "&" -> "%26"
          [] str[i] = "=" -> "%3D"
          [] str[i] = "?" -> "%3F"
          [] str[i] = "+" -> "%2B"
          [] str[i] = ":" -> "%3A"
          [] str[i] = "//" -> "%2F%2F"
          [] OTHER -> str[i]]

\* The string JSON.stringify writes for a string.
JsonString(str) ==
    <<"\"">> \o
    [i \in 1..Len(str) |->
        CASE str[i] = NL   -> "\\n"
          [] str[i] = "\"" -> "\\\""
          [] OTHER -> str[i]]
    \o <<"\"">>

\* JSON.stringify(gql, null, 2).  Variables that are not JSON are written as a
\* string; variables that are JSON are written as they are in the model's inputs.
JsonStringify(query, variables, variablesAreJson) ==
    <<"{", NL, SP, SP, "\"", "query", "\"", ":", SP>> \o JsonString(query)
    \o (IF Truthy(variables)
        THEN <<",", NL, SP, SP, "\"", "variables", "\"", ":", SP>>
             \o (IF variablesAreJson THEN variables ELSE JsonString(variables))
        ELSE << >>)
    \o <<NL, "}">>

IsJson(str) == str # << >> /\ Head(str) \in {"{", "["}

FormDataLine(f) == f.key \o <<"=">> \o f.value

Enabled(e) == e.enabled

OrEmpty(str) == IF Truthy(str) THEN str ELSE << >>

\* generateBody: Undefined when there is nothing to write.
generateBody(request) ==
    LET body == request.body
    IN  CASE body.type \in {"json", "raw", "form"} -> OrEmpty(body.content)
          [] body.type = "formdata" ->
                IF body.formData # << >>
                THEN LET on == SelectSeq(body.formData, Enabled)
                     IN  join([i \in 1..Len(on) |-> FormDataLine(on[i])], <<NL>>)
                ELSE OrEmpty(body.content)
          [] body.type = "graphql" ->
                IF body.graphql # << >>
                THEN JsonStringify(body.graphql[1].query, body.graphql[1].variables,
                                   IsJson(body.graphql[1].variables))
                ELSE Undefined
          [] body.type = "binary" ->
                IF Truthy(body.content) THEN <<"<", SP>> \o body.content ELSE Undefined
          [] OTHER -> Undefined

EnabledWithKey(e) == e.enabled /\ e.key # << >>

buildUrlEncoded(baseUrl, queryParams) == encodeURIComponent(baseUrl)

buildUrl(baseUrl, queryParams) ==
    LET enabledParams == SelectSeq(queryParams, EnabledWithKey)
    IN  IF enabledParams = << >> THEN baseUrl
        ELSE baseUrl \o <<"?">> \o
             join([i \in 1..Len(enabledParams) |->
                      encodeURIComponent(enabledParams[i].key) \o <<"=">>
                      \o encodeURIComponent(enabledParams[i].value)],
                  <<"&">>)

\* The lines of a script, each indented by two blanks.
ScriptLines(script) ==
    LET ls == split(script, NL)
    IN  [i \in 1..Len(ls) |-> <<SP, SP>> \o ls[i]]

generate(request) ==
    LET metadata ==
            (IF Truthy(request.name)
             THEN << <<"#", SP, "@name", SP>> \o request.name >> ELSE << >>)
            \o (IF Truthy(request.description)
                THEN << <<"#", SP, "@description", SP>> \o request.description >>
                ELSE << >>)
            \o (IF request.tags # Undefined /\ request.tags # << >>
                THEN << <<"#", SP, "@tag", SP>> \o join(request.tags, <<",", SP>>) >>
                ELSE << >>)
        preRequest ==
            IF request.preRequest # Undefined /\ trim(request.preRequest) # << >>
            THEN << <<"{{">>, <<SP, SP, "//", SP, "@pre">> >>
                 \o ScriptLines(request.preRequest) \o << <<"}}">>, << >> >>
            ELSE << >>
        enabledHeaders == SelectSeq(request.headers, EnabledWithKey)
        headerLines ==
            [i \in 1..Len(enabledHeaders) |->
                enabledHeaders[i].key \o <<":", SP>> \o enabledHeaders[i].value]
        bodyContent == generateBody(request)
        tests ==
            IF request.tests # Undefined /\ trim(request.tests) # << >>
            THEN << << >>, <<"{{">> >> \o ScriptLines(request.tests) \o << <<"}}">> >>
            ELSE << >>
        lines ==
            metadata
            \o (IF metadata # << >> THEN << << >> >> ELSE << >>)
            \o preRequest
            \o << <<request.method, SP>> \o buildUrl(request.url, request.queryParams) >>
            \o headerLines
            \o (IF Truthy(bodyContent) THEN << << >>, bodyContent >> ELSE << >>)
            \o tests
            \o << << >>, <<"###">> >>
    IN  join(lines, <<NL>>)

-----------------------------------------------------------------------------
(* CollectionParser.parseHttpText and detectBodyType.                      *)

toUpperCase(lexeme) ==
    CASE lexeme = "get" -> "GET"
      [] lexeme = "post" -> "POST"
      [] lexeme = "put" -> "PUT"
      [] lexeme = "delete" -> "DELETE"
      [] lexeme = "patch" -> "PATCH"
      [] lexeme = "head" -> "HEAD"
      [] lexeme = "options" -> "OPTIONS"
      [] lexeme = "connect" -> "CONNECT"
      [] lexeme = "trace" -> "TRACE"
      [] OTHER -> lexeme

toLowerCase(str) ==
    [i \in 1..Len(str) |->
        CASE str[i] = "Content-Type" -> "content-type"
          [] str[i] = "Application/JSON" -> "application/json"
          [] OTHER -> str[i]]

\* The percent-decoding of URLSearchParams, lexeme by lexeme.
decode(str) ==
    [i \in 1..Len(str) |->
        CASE str[i] = "%20" -> SP
          [] str[i] = "+"   -> SP
          [] str[i] = "%26" -> "&"
          [] str[i] = "%3D" -> "="
          [] str[i] = "%3F" -> "?"
          [] str[i] = "%2B" -> "+"
          [] str[i] = "%3A" -> ":"
          [] str[i] = "%2F%2F" -> "//"
          [] OTHER -> str[i]]

NonEmpty(str) == str # << >>

\* new URLSearchParams(queryString), as the list forEach visits.
URLSearchParams(queryString) ==
    LET pairs == SelectSeq(split(queryString, "&"), NonEmpty)
    IN  [i \in 1..Len(pairs) |->
            LET eq == indexOf(pairs[i], "=")
            IN  IF eq = 0
                THEN Entry(decode(pairs[i]), << >>, TRUE)
                ELSE Entry(decode(SubSeq(pairs[i], 1, eq - 1)),
                           decode(slice(pairs[i], eq + 1)), TRUE)]

IsContentType(h) == toLowerCase(h.key) = <<"content-type">>

detectBodyTypeGraphqlFirst(body, headers) ==
    IF includes(body, <<"query">>) \/ includes(body, <<"mutation">>)
    THEN Body("graphql", Undefined, << >>, Graphql(body, Undefined))
    ELSE IF startsWith(trim(body), <<"{">>) \/ startsWith(trim(body), <<"[">>)
    THEN Body("json", body, << >>, << >>)
    ELSE Body("raw", body, << >>, << >>)

detectBodyType(body, headers) ==
    LET found == SelectSeq(headers, IsContentType)
        contentType == IF found = << >> THEN << >> ELSE toLowerCase(found[1].value)
    IN  IF \/ includes(contentType, <<"application/json">>)
           \/ startsWith(trim(body), <<"{">>)
           \/ startsWith(trim(body), <<"[">>)
        THEN Body("json", body, << >>, << >>)
        ELSE IF includes(contentType, <<"application/x-www-form-urlencoded">>)
        THEN Body("form", body, << >>, << >>)
        ELSE IF includes(contentType, <<"multipart/form-data">>)
        THEN Body("formdata", body, << >>, << >>)
        ELSE IF \/ includes(contentType, <<"application/graphql">>)
                \/ includes(body, <<"query">>)
                \/ includes(body, <<"mutation">>)
        THEN Body("graphql", Undefined, << >>, Graphql(body, Undefined))
        ELSE Body("raw", body, << >>, << >>)

\* The request parseHttpText starts from (the id and the file location apart).
NewRequest ==
    [name |-> <<"New Request">>, description |-> Undefined, tags |-> Undefined,
     preRequest |-> Undefined, tests |-> Undefined,
     method |-> "GET", url |-> << >>, queryParams |-> << >>, headers |-> << >>,
     body |-> NoBody]

ParserStart ==
    [request |-> NewRequest, inBody |-> FALSE, bodyLines |-> << >>,
     inScript |-> FALSE, scriptType |-> "null", scriptLines |-> << >>]

\* /^(GET|POST|PUT|DELETE|PATCH|HEAD|OPTIONS|CONNECT|TRACE)\s+(.+)$/i
requestLineMatchAnyWord(trimmedLine) ==
    /\ Len(trimmedLine) >= 3
    /\ trimmedLine[2] = SP

requestLineMatch(trimmedLine) ==
    /\ Len(trimmedLine) >= 3
    /\ toUpperCase(trimmedLine[1]) \in HttpMethod
    /\ trimmedLine[2] = SP

\* The body of the loop over the lines.
parseLine(st, line) ==
    LET trimmedLine == trim(line)
        request == st.request
    IN  IF trimmedLine = <<"###">> THEN st
        ELSE IF startsWith(trimmedLine, <<"#", SP, "@name", SP>>)
        THEN [st EXCEPT !.request.name = trim(slice(trimmedLine, 5))]
        ELSE IF startsWith(trimmedLine, <<"#", SP, "@description", SP>>)
        THEN [st EXCEPT !.request.description = trim(slice(trimmedLine, 5))]
        ELSE IF startsWith(trimmedLine, <<"#", SP, "@tag", SP>>)
        THEN LET ts == split(slice(trimmedLine, 5), ",")
             IN  [st EXCEPT !.request.tags = [i \in 1..Len(ts) |-> trim(ts[i])]]
        ELSE IF startsWith(trimmedLine, <<"{{">>)
        THEN [st EXCEPT !.inScript = TRUE,
                        !.scriptType = IF includes(trimmedLine, <<"@pre">>)
                                       THEN "pre" ELSE "test"]
        ELSE IF startsWith(trimmedLine, <<"}}">>)
        THEN [st EXCEPT
                !.request.preRequest =
                    IF st.scriptType = "pre" THEN join(st.scriptLines, <<NL>>) ELSE @,
                !.request.tests =
                    IF st.scriptType = "test" THEN join(st.scriptLines, <<NL>>) ELSE @,
                !.inScript = FALSE, !.scriptType = "null", !.scriptLines = << >>]
        ELSE IF st.inScript
        THEN [st EXCEPT !.scriptLines = Append(@, line)]
        ELSE IF startsWith(trimmedLine, <<"#">>) \/ startsWith(trimmedLine, <<"//">>)
        THEN st
        ELSE IF requestLineMatch(trimmedLine)
        THEN LET fullUrl == trim(slice(trimmedLine, 3))
                 parts == split(fullUrl, "?")
             IN  [st EXCEPT
                    !.request.method = toUpperCase(trimmedLine[1]),
                    !.request.url = parts[1],
                    !.request.queryParams =
                        IF Len(parts) >= 2 /\ parts[2] # << >>
                        THEN @ \o URLSearchParams(parts[2]) ELSE @]
        ELSE IF ~st.inBody /\ trimmedLine = << >> /\ request.url # << >>
        THEN [st EXCEPT !.inBody = TRUE]
        ELSE IF ~st.inBody /\ includes(trimmedLine, <<":">>)
        THEN LET colonIndex == indexOf(trimmedLine, ":")
                 key == trim(SubSeq(trimmedLine, 1, colonIndex - 1))
                 value == trim(slice(trimmedLine, colonIndex + 1))
             IN  IF key # << >> /\ ~startsWith(key, <<"{">>)
                 THEN [st EXCEPT !.request.headers = Append(@, Entry(key, value, TRUE))]
                 ELSE st
        ELSE IF st.inBody
        THEN [st EXCEPT !.bodyLines = Append(@, line)]
        ELSE st

RECURSIVE parseLines(_, _)
parseLines(st, lines) ==
    IF lines = << >> THEN st
    ELSE parseLines(parseLine(st, Head(lines)), Tail(lines))

parseHttpText(text) ==
    LET st == parseLines(ParserStart, split(text, NL))
        bodyText == trim(join(st.bodyLines, <<NL>>))
    IN  IF st.bodyLines # << >> /\ bodyText # << >>
        THEN [st.request EXCEPT !.body = detectBodyType(bodyText, st.request.headers)]
        ELSE st.request

-----------------------------------------------------------------------------
(* CodecSpec: a request model is written with generate and read back with  *)
(* parseHttpText, twice; or a file found on disk is read.                  *)

Url == <<"https", ":", "//", "api.example.com/login">>

ContentTypeJson == Entry(<<"Content-Type">>, <<"application/json">>, TRUE)
ContentTypeForm == Entry(<<"Content-Type">>, <<"application/x-www-form-urlencoded">>, TRUE)
DisabledX == Entry(<<"X">>, <<"1">>, FALSE)

JsonUser == <<"{", "\"", "user", "\"", ":", "\"", "a", "\"", "}">>

Names == { <<"Login">>, << >> }

Descriptions == { Undefined, <<"Logs", SP, "in", NL, "X", ":", SP, "legacy">> }

TagLists == { Undefined, << <<"auth">>, <<"v1">> >> }

Methods == { "GET", "POST" }

Urls == { Url, << >> }

HeaderLists ==
    { << >>, << ContentTypeJson >>, << DisabledX >>, << ContentTypeForm, DisabledX >> }

QueryParamLists ==
    { << >>,
      << Entry(<<"a">>, <<"b", SP, "c">>, TRUE) >>,
      << Entry(<<"q">>, <<"x", "&", "y", "=", "z">>, TRUE), Entry(<<"n">>, << >>, TRUE) >> }

Bodies ==
    { NoBody,
      Body("json", JsonUser, << >>, << >>),
      Body("json", << >>, << >>, << >>),
      Body("raw", <<"hello">>, << >>, << >>),
      Body("raw", <<"X", ":", SP, "1">>, << >>, << >>),
      Body("form", <<"a", "=", "1">>, << >>, << >>),
      Body("formdata", Undefined,
           << Entry(<<"f">>, <<"1">>, TRUE), Entry(<<"g">>, <<"2">>, FALSE) >>, << >>),
      Body("graphql", Undefined, << >>,
           Graphql(<<"query", SP, "{", SP, "x", SP, "}">>, Undefined)),
      Body("binary", <<"file.bin">>, << >>, << >>) }

Scripts == { Undefined, <<"const", SP, "x", NL, "done">> }

Models ==
    [name : Names, description : Descriptions, tags : TagLists,
     preRequest : Scripts, tests : Scripts, method : Methods, url : Urls,
     queryParams : QueryParamLists, headers : HeaderLists, body : Bodies]

\* Files that the generator did not write.
Texts ==
    { << >>,
      <<"#", SP, "note">>,
      <<"get", SP, "https", ":", "//", "h">>,
      <<"FETCH", SP, "/x", NL, "A", ":", SP, "b", NL, NL, "hello">>,
      <<"{{", NL, "GET", SP, "/x", NL, "}}">>,
      <<"POST", SP, "/x", NL, NL, "query", SP, "{", SP, "x", SP, "}">>,
      <<"POST", SP, "/x", NL, NL, "mutation", SP, "{", SP, "x", SP, "}">>,
      <<"POST", SP, "/x", NL, NL, "[", "1", "]">>,
      <<"POST", SP, "/x", NL, NL, "{", "\"", "query", "\"", ":", "1", "}">>,
      <<"POST", SP, "/x", NL, NL, "hello">>,
      <<"PUT", SP, "/x", NL, "Content-Type", ":", SP, "text/plain", NL, NL, "query">>,
      <<"A", ":", SP, "b", NL, "GET", SP, "/x">>,
      <<"GET", SP, "/x", "?", "a", "=", "1", NL, NL, "put", SP, "/y", "?", "b", "=", "2">>,
      <<"POST", SP, "/x", NL, NL, "#", SP, "note", NL, "hello", NL, "A", ":", SP, "b">> }

NoModel == << >>

Codec(stage, request, text, parsed, text2, parsed2) ==
    [stage |-> stage, request |-> request, text |-> text, parsed |-> parsed,
     text2 |-> text2, parsed2 |-> parsed2]

CodecInit ==
    /\ writeDebounceTimers = NoTimers
    /\ pendingWrites = {}
    /\ calls = << >>
    /\ disk = [p \in RequestFiles |-> TRUE]
    /\ watcherQueue = << >>
    /\ step = Quiet
    /\ editor = << >>
    /\ explorer = << >>
    /\ tree = << >>
    /\ \/ \E m \in Models :
             codec = Codec("model", m, << >>, NewRequest, << >>, NewRequest)
       \/ \E t \in Texts :
             codec = Codec("text", NoModel, t, NewRequest, << >>, NewRequest)

\* writeRequest: the content written is generate(request).
Generate ==
    /\ codec.stage = "model"
    /\ codec' = [codec EXCEPT !.stage = "text", !.text = generate(codec.request)]
    /\ UNCHANGED <<coordinator, step, tree, editor, explorer>>

\* parseHttpFileToRequest: the text read is parsed.
Parse ==
    /\ codec.stage = "text"
    /\ codec' = [codec EXCEPT !.stage = "parsed", !.parsed = parseHttpText(codec.text)]
    /\ UNCHANGED <<coordinator, step, tree, editor, explorer>>

\* The parsed model is saved again.
GenerateAgain ==
    /\ codec.stage = "parsed"
    /\ codec' = [codec EXCEPT !.stage = "text2", !.text2 = generate(codec.parsed)]
    /\ UNCHANGED <<coordinator, step, tree, editor, explorer>>

ParseAgain ==
    /\ codec.stage = "text2"
    /\ codec' = [codec EXCEPT !.stage = "parsed2", !.parsed2 = parseHttpText(codec.text2)]
    /\ UNCHANGED <<coordinator, step, tree, editor, explorer>>

CodecNext == Generate \/ Parse \/ GenerateAgain \/ ParseAgain

CodecSpec == CodecInit /\ [][CodecNext]_vars

-----------------------------------------------------------------------------
(* duplicateRequest: the request of a file is read, and createRequest is   *)
(* called with the name of the copy.  text is the content of the file,     *)
(* text2 the content written to the new file.                              *)

\* The request createRequest builds and writes.
NewRequestOf(name) ==
    [name |-> name, description |-> Undefined, tags |-> Undefined,
     preRequest |-> Undefined, tests |-> Undefined,
     method |-> "GET",
     url |-> <<"https", ":", "//", "api.example.com/endpoint">>,
     queryParams |-> << >>,
     headers |-> << Entry(<<"Accept">>, <<"application/json">>, TRUE) >>,
     body |-> NoBody]

\* The name of the copy of login.http.
CopyName == <<"login", "-copy">>

DuplicateInit ==
    /\ writeDebounceTimers = NoTimers
    /\ pendingWrites = {}
    /\ calls = << >>
    /\ disk = [p \in RequestFiles |-> TRUE]
    /\ watcherQueue = << >>
    /\ step = Quiet
    /\ editor = << >>
    /\ explorer = << >>
    /\ tree = << >>
    /\ \E t \in Texts \cup { generate(m) : m \in Models } :
          codec = Codec("text", NoModel, t, NewRequest, << >>, NewRequest)

\* duplicateRequest after getRequest: createRequest(newName, parentPath) writes
\* the request it builds.
duplicateRequest ==
    /\ codec.stage = "parsed"
    /\ codec' = [codec EXCEPT !.stage = "duplicated",
                              !.text2 = generate(NewRequestOf(CopyName))]
    /\ UNCHANGED <<coordinator, step, tree, editor, explorer>>

\* The new file is read.
getRequest ==
    /\ codec.stage = "duplicated"
    /\ codec' = [codec EXCEPT !.stage = "copied", !.parsed2 = parseHttpText(codec.text2)]
    /\ UNCHANGED <<coordinator, step, tree, editor, explorer>>

DuplicateNext == Parse \/ duplicateRequest \/ getRequest

DuplicateSpec == DuplicateInit /\ [][DuplicateNext]_vars

-----------------------------------------------------------------------------
(* CollectionParser: the walk of the root folder.                          *)
(* A name is a string (a sequence of lexemes, the extension last); a uri   *)
(* is the sequence of the names from the root down.                        *)

COLLECTION_METADATA_FILE  == <<"_", "collection", ".json">>
COLLECTIONS_MANIFEST_FILE == <<"collections", ".json">>
HTTP_EXTENSIONS == {".http", ".rest"}

DirEntry(name)  == [name |-> name, type |-> "Directory"]
FileEntry(name) == [name |-> name, type |-> "File"]

rootUri == << <<"workspace">> >>

joinPath(uri, name) == Append(uri, name)

\* Uri.toString() and Uri.fsPath.
toString(uri) == <<"file", ":", "//">> \o <<"/">> \o join(uri, <<"/">>)
fsPath(uri)   == <<"/">> \o join(uri, <<"/">>)

endsWith(str, lexeme) == str # << >> /\ str[Len(str)] = lexeme

\* path.extname and path.basename(fileName, extname).
extname(fileName) ==
    IF    /\ Len(fileName) > 1
          /\ fileName[Len(fileName)] \in {".http", ".rest", ".json", ".txt"}
    THEN  << fileName[Len(fileName)] >>
    ELSE  << >>

basename(fileName, ext) ==
    IF ext # << >> /\ endsWith(fileName, ext[1])
    THEN SubSeq(fileName, 1, Len(fileName) - 1)
    ELSE fileName

\* path.dirname of the path of a uri.
dirname(uri) == fsPath(SubSeq(uri, 1, Len(uri) - 1))

ApiUri  == joinPath(rootUri, <<"api">>)
AuthUri == joinPath(rootUri, <<"auth">>)
ZetaUri == joinPath(rootUri, <<"zeta">>)
SubUri  == joinPath(ApiUri, <<"sub">>)

\* The content of the request files of the workspace.
readFile(fileUri) ==
    IF fileUri = joinPath(ApiUri, <<"a", ".http">>)
        THEN <<"GET", SP, "/a">>
    ELSE IF fileUri = joinPath(ApiUri, <<"b", ".http">>)
        THEN <<"#", SP, "@description", SP, "second", NL, "POST", SP, "/b">>
    ELSE IF fileUri = joinPath(ApiUri, <<"c", ".rest">>)
        THEN <<"#", SP, "@name", SP, "Create", NL, "PUT", SP, "/c">>
    ELSE IF fileUri = joinPath(SubUri, <<"d", ".http">>)
        THEN <<"#", "@name", SP, SP, "a", SP, NL, "delete", SP, "/d">>
    ELSE <<"PATCH", SP, "/e">>

\* The folders of the workspace that are not reordered between two listings.
FixedEntries(folderUri) ==
    IF folderUri = SubUri  THEN << FileEntry(<<"d", ".http">>), FileEntry(<<"d", ".txt">>) >>
    ELSE IF folderUri = AuthUri THEN << FileEntry(<<"e", ".http">>) >>
    ELSE << >>

\* An order list that is not there.
NoOrder == << Undefined >>

NoMetadata == [name |-> Undefined, order |-> NoOrder]
NoManifest == [collections |-> NoOrder]

Folders == {rootUri, ApiUri, AuthUri, ZetaUri, SubUri}

\* text.match(/^#\s*@name\s+(.+)$/m) and text.match(/^#\s*@description\s+(.+)$/m):
\* the capture of the first line that matches, Undefined with no such line.
RECURSIVE commentMatch(_, _)
commentMatch(lines, tag) ==
    IF lines = << >> THEN Undefined
    ELSE LET line == lines[1]
             rest == IF line # << >> /\ line[1] = "#" THEN TrimStart(Tail(line)) ELSE << >>
         IN  IF /\ Len(rest) >= 3
                /\ rest[1] = tag
                /\ rest[2] = SP
             THEN IF TrimStart(Tail(rest)) # << >>
                  THEN TrimStart(Tail(rest))
                  ELSE << rest[Len(rest)] >>
             ELSE commentMatch(Tail(lines), tag)

\* text.match(/^\s*(GET|...|TRACE)\s+/m): upper case only.
RECURSIVE methodMatch(_)
methodMatch(lines) ==
    IF lines = << >> THEN Undefined
    ELSE LET line == TrimStart(lines[1])
         IN  IF /\ line # << >>
                /\ line[1] \in HttpMethod
                /\ \/ Len(line) >= 2 /\ line[2] = SP
                   \/ Len(line) = 1 /\ Len(lines) > 1
             THEN << line[1] >>
             ELSE methodMatch(Tail(lines))

parseHttpFile(fileUri, fileName) ==
    LET text == readFile(fileUri)
        nameMatch == commentMatch(split(text, NL), "@name")
        descriptionMatch == commentMatch(split(text, NL), "@description")
        matched == methodMatch(split(text, NL))
        name == IF nameMatch # Undefined /\ trim(nameMatch) # << >>
                THEN trim(nameMatch)
                ELSE basename(fileName, extname(fileName))
    IN  [type |-> "request",
         id |-> toString(fileUri),
         label |-> name,
         description |-> IF descriptionMatch = Undefined THEN Undefined
                         ELSE trim(descriptionMatch),
         method |-> IF matched = Undefined THEN "GET" ELSE matched[1],
         filePath |-> fsPath(fileUri),
         folderPath |-> dirname(fileUri),
         lastRunStatus |-> "none"]

\* A mutant: the comparator puts the unlisted entries first.
compareUnlistedFirst(a, b, order) ==
    LET indexA == indexOf(order, a.label)
        indexB == indexOf(order, b.label)
    IN  IF indexA = 0 /\ indexB = 0 THEN 0
        ELSE IF indexA = 0 THEN 0 - 1
        ELSE IF indexB = 0 THEN 1
        ELSE indexA - indexB

\* The comparator of both sorts (indexOf counts from 1 here, 0 is "not found").
compare(a, b, order) ==
    LET indexA == indexOf(order, a.label)
        indexB == indexOf(order, b.label)
    IN  IF indexA = 0 /\ indexB = 0 THEN 0
        ELSE IF indexA = 0 THEN 1
        ELSE IF indexB = 0 THEN 0 - 1
        ELSE indexA - indexB

\* Array.prototype.sort is stable: a node goes behind every node that does not
\* compare greater.
RECURSIVE insert(_, _, _)
insert(sorted, node, order) ==
    IF sorted = << >> \/ compare(sorted[Len(sorted)], node, order) <= 0
    THEN Append(sorted, node)
    ELSE Append(insert(SubSeq(sorted, 1, Len(sorted) - 1), node, order),
                sorted[Len(sorted)])

RECURSIVE sort(_, _)
sort(nodes, order) ==
    IF nodes = << >> THEN << >>
    ELSE insert(sort(SubSeq(nodes, 1, Len(nodes) - 1), order), nodes[Len(nodes)], order)

\* if (order?.length) nodes.sort(...)
sortByOrder(nodes, order) ==
    IF order # NoOrder /\ Len(order) > 0 THEN sort(nodes, order) ELSE nodes

readDirectory(folderUri) == tree.entries[folderUri]

\* readDirectory or readFile of the uri throws.
Throws(uri) == uri \in tree.unreadable

\* httpyac.io.log.error(message, err)
LogError(message, uri) == [message |-> message, uri |-> uri]

loadCollectionMetadata(folderUri) == tree.metadata[folderUri]

loadManifest == tree.manifest

isSubFolder(entry) ==
    /\ entry.type = "Directory"
    /\ ~startsWith(entry.name, <<".">>)
    /\ ~startsWith(entry.name, <<"_">>)

isHttpEntry(entry) ==
    /\ entry.type = "File"
    /\ \E ext \in HTTP_EXTENSIONS : endsWith(entry.name, ext)

\* A mutant: a request node is identified by its place in the listing.
parseHttpFilesNumbered(folderUri, entries) ==
    LET readable(entry) == isHttpEntry(entry) /\ ~Throws(joinPath(folderUri, entry.name))
        files == SelectSeq(entries, readable)
    IN  [i \in 1..Len(files) |->
            [parseHttpFile(joinPath(folderUri, files[i].name), files[i].name)
                EXCEPT !.id = toString(folderUri) \o <<"#">> \o [k \in 1..i |-> "|"]]]

\* The second loop of parseFolder: parseHttpFile returns undefined, and no node
\* is pushed, for a file that cannot be read.
parseHttpFiles(folderUri, entries) ==
    LET readable(entry) == isHttpEntry(entry) /\ ~Throws(joinPath(folderUri, entry.name))
        files == SelectSeq(entries, readable)
    IN  [i \in 1..Len(files) |->
            parseHttpFile(joinPath(folderUri, files[i].name), files[i].name)]

\* readDirectory is the first statement of the try block of parseFolder: when
\* it throws, the catch logs and children is still empty.
RECURSIVE parseFolder(_, _)
parseFolder(folderUri, name) ==
    LET metadata == loadCollectionMetadata(folderUri)
        entries  == IF Throws(folderUri) THEN << >> ELSE readDirectory(folderUri)
        folders  == SelectSeq(entries, isSubFolder)
        subNodes == [i \in 1..Len(folders) |->
                        parseFolder(joinPath(folderUri, folders[i].name), folders[i].name)]
        children == subNodes \o parseHttpFiles(folderUri, entries)
    IN  [type |-> "collection",
         id |-> toString(folderUri),
         label |-> IF Truthy(metadata.name) THEN metadata.name ELSE name,
         filePath |-> fsPath(folderUri),
         folderPath |-> fsPath(folderUri),
         children |-> sortByOrder(children, metadata.order)]

isCollection(entry) ==
    /\ entry.type = "Directory"
    /\ ~startsWith(entry.name, <<".">>)
    /\ entry.name # <<ENVIRONMENTS_FOLDER>>

parseCollectionTree ==
    LET entries == IF Throws(rootUri) THEN << >>
                   ELSE SelectSeq(readDirectory(rootUri), isCollection)
        collections == [i \in 1..Len(entries) |->
                           parseFolder(joinPath(rootUri, entries[i].name), entries[i].name)]
    IN  sortByOrder(collections, loadManifest.collections)

\* What the walk of a folder logs, in the order of the calls.
RECURSIVE Flatten(_)
Flatten(seqs) == IF seqs = << >> THEN << >> ELSE seqs[1] \o Flatten(Tail(seqs))

parseHttpFilesLog(folderUri, entries) ==
    LET unreadable(entry) == isHttpEntry(entry) /\ Throws(joinPath(folderUri, entry.name))
        files == SelectSeq(entries, unreadable)
    IN  [i \in 1..Len(files) |->
            LogError("Failed to parse HTTP file", toString(joinPath(folderUri, files[i].name)))]

RECURSIVE parseFolderLog(_)
parseFolderLog(folderUri) ==
    IF Throws(folderUri)
    THEN << LogError("Failed to parse folder", toString(folderUri)) >>
    ELSE LET entries == readDirectory(folderUri)
             folders == SelectSeq(entries, isSubFolder)
         IN  Flatten([i \in 1..Len(folders) |->
                         parseFolderLog(joinPath(folderUri, folders[i].name))])
             \o parseHttpFilesLog(folderUri, entries)

parseCollectionTreeLog ==
    IF Throws(rootUri)
    THEN << LogError("Failed to parse collection tree", toString(rootUri)) >>
    ELSE LET entries == SelectSeq(readDirectory(rootUri), isCollection)
         IN  Flatten([i \in 1..Len(entries) |->
                         parseFolderLog(joinPath(rootUri, entries[i].name))])

\* The listings the file system can return for the workspace: the entries of a
\* folder in any order.
Orderings(S) ==
    { s \in [1..Cardinality(S) -> S] : \A x \in S : \E i \in 1..Cardinality(S) : s[i] = x }

RootListings ==
    { << DirEntry(<<".", "git">>) >> \o s
         \o << DirEntry(<<ENVIRONMENTS_FOLDER>>), FileEntry(COLLECTIONS_MANIFEST_FILE) >> :
      s \in Orderings({DirEntry(<<"api">>), DirEntry(<<"auth">>), DirEntry(<<"zeta">>)}) }

ApiListings ==
    { << DirEntry(<<"_", "drafts">>) >> \o s
         \o << FileEntry(COLLECTION_METADATA_FILE), FileEntry(<<"notes", ".txt">>) >> :
      s \in Orderings({FileEntry(<<"a", ".http">>), FileEntry(<<"b", ".http">>),
                       FileEntry(<<"c", ".rest">>), DirEntry(<<"sub">>)}) }

Listings ==
    { [f \in Folders |-> IF f = rootUri THEN r ELSE IF f = ApiUri THEN a ELSE FixedEntries(f)] :
      r \in RootListings, a \in ApiListings }

\* _collection.json of the folder api, of its sub-folder, and collections.json.
ApiMetadata ==
    { NoMetadata,
      [name |-> Undefined, order |-> << <<"b">>, <<"a">> >>],
      [name |-> <<"API">>,
       order |-> << <<"Create">>, <<"a">>, <<"missing">>, <<"Create">> >>] }

SubMetadata == [name |-> <<"a">>, order |-> << >>]

Manifests ==
    { NoManifest,
      [collections |-> << <<"zeta">>, <<"api">> >>],
      [collections |-> << <<"auth">> >>] }

Tree(stage, entries, metadata, manifest, first, second) ==
    [stage |-> stage, entries |-> entries, metadata |-> metadata, manifest |-> manifest,
     first |-> first, second |-> second, unreadable |-> {}, log |-> << >>]

TreeInit ==
    /\ writeDebounceTimers = NoTimers
    /\ pendingWrites = {}
    /\ calls = << >>
    /\ disk = [p \in RequestFiles |-> TRUE]
    /\ watcherQueue = << >>
    /\ step = Quiet
    /\ editor = << >>
    /\ explorer = << >>
    /\ codec = << >>
    /\ \E entries \in Listings, api \in ApiMetadata, manifest \in Manifests :
          tree = Tree("listed", entries,
                      [f \in Folders |-> IF f = ApiUri THEN api
                                         ELSE IF f = SubUri THEN SubMetadata
                                         ELSE NoMetadata],
                      manifest, << >>, << >>)

\* parseCollectionTree, the first time.
Walk ==
    /\ tree.stage = "listed"
    /\ tree' = [tree EXCEPT !.stage = "walked", !.first = parseCollectionTree,
                            !.log = parseCollectionTreeLog]
    /\ UNCHANGED <<coordinator, step, codec, editor, explorer>>

\* Nothing changes in the workspace, and the file system lists it in another order.
Relist ==
    /\ tree.stage = "walked"
    /\ \E entries \in Listings : tree' = [tree EXCEPT !.stage = "relisted", !.entries = entries]
    /\ UNCHANGED <<coordinator, step, codec, editor, explorer>>

\* parseCollectionTree, the second time.
WalkAgain ==
    /\ tree.stage = "relisted"
    /\ tree' = [tree EXCEPT !.stage = "rewalked", !.second = parseCollectionTree,
                            !.log = tree.log \o parseCollectionTreeLog]
    /\ UNCHANGED <<coordinator, step, codec, editor, explorer>>

TreeNext == Walk \/ Relist \/ WalkAgain

TreeSpec == TreeInit /\ [][TreeNext]_vars

\* A workspace with hidden and private entries, some of them unreadable.
ArchiveUri   == joinPath(rootUri, <<"_", "archive">>)
GitUri       == joinPath(rootUri, <<".", "git">>)
RootEnvUri   == joinPath(rootUri, <<ENVIRONMENTS_FOLDER>>)
DraftsUri    == joinPath(ApiUri, <<"_", "drafts">>)
CacheUri     == joinPath(ZetaUri, <<".", "cache">>)
ZetaEnvUri   == joinPath(ZetaUri, <<ENVIRONMENTS_FOLDER>>)

ScanFolders ==
    Folders \cup {ArchiveUri, GitUri, RootEnvUri, DraftsUri, CacheUri, ZetaEnvUri}

ScanEntries(folderUri) ==
    IF folderUri = rootUri
        THEN << DirEntry(<<".", "git">>), DirEntry(<<"zeta">>), DirEntry(<<"api">>),
                DirEntry(<<ENVIRONMENTS_FOLDER>>), FileEntry(COLLECTIONS_MANIFEST_FILE),
                DirEntry(<<"_", "archive">>), DirEntry(<<"auth">>),
                FileEntry(<<"loose", ".http">>) >>
    ELSE IF folderUri = ApiUri
        THEN << FileEntry(<<"a", ".http">>), DirEntry(<<"_", "drafts">>), DirEntry(<<"sub">>),
                FileEntry(COLLECTION_METADATA_FILE), FileEntry(<<"b", ".http">>) >>
    ELSE IF folderUri = ZetaUri
        THEN << FileEntry(<<".", "hidden", ".http">>), DirEntry(<<".", "cache">>),
                DirEntry(<<ENVIRONMENTS_FOLDER>>), FileEntry(<<"_", "z", ".rest">>) >>
    ELSE IF folderUri = ZetaEnvUri THEN << FileEntry(<<"dev", ".http">>) >>
    ELSE IF folderUri \in {ArchiveUri, GitUri, RootEnvUri, DraftsUri, CacheUri}
        THEN << FileEntry(<<"x", ".http">>) >>
    ELSE FixedEntries(folderUri)

\* The folders and request files whose read can fail.
Unreadables ==
    { rootUri, ApiUri, SubUri, AuthUri, ZetaUri, ZetaEnvUri,
      joinPath(ApiUri, <<"a", ".http">>), joinPath(AuthUri, <<"e", ".http">>) }

ScanInit ==
    /\ writeDebounceTimers = NoTimers
    /\ pendingWrites = {}
    /\ calls = << >>
    /\ disk = [p \in RequestFiles |-> TRUE]
    /\ watcherQueue = << >>
    /\ step = Quiet
    /\ editor = << >>
    /\ explorer = << >>
    /\ codec = << >>
    /\ \E unreadable \in SUBSET Unreadables, manifest \in Manifests :
          tree = [Tree("listed", [f \in ScanFolders |-> ScanEntries(f)],
                       [f \in ScanFolders |-> NoMetadata], manifest, << >>, << >>)
                  EXCEPT !.unreadable = unreadable]

ScanSpec == ScanInit /\ [][Walk]_vars

-----------------------------------------------------------------------------
(* RequestEditorProvider: sendRequest and cancelRequest.                   *)
(*                                                                         *)
(* An execution is one call of sendRequest, named by its place in          *)
(* executions.  Its token is the token of the source the call created.     *)
(* superseded and cancelledByUser tell that a new send, or the cancel      *)
(* message, arrived while it was in flight.  messages are the messages it  *)
(* posted to the webview, oldest first, and outcome is the last of them.   *)

MaxSends == 3

NewExecution(call) ==
    [stage |-> "saving", call |-> call, token |-> "live", sourceDisposed |-> FALSE,
     outcome |-> "requestProgress", superseded |-> FALSE, cancelledByUser |-> FALSE,
     messages |-> << "requestProgress" >>]

\* currentRequest is the file of the provider's current request and content the
\* request whose content it carries; webview is the request the webview shows,
\* toWebview and toHost are the messages posted and not yet received, and saves
\* are the saves asked for by updateRequest messages: whose content, which file.
Editor(currentRequest) ==
    [currentRequest |-> currentRequest, content |-> currentRequest,
     cancellationTokenSource |-> 0, isRequestInProgress |-> FALSE, executions |-> << >>,
     webview |-> currentRequest, toWebview |-> << >>, toHost |-> << >>, saves |-> {}]

InFlightExecutions == { x \in 1..Len(editor.executions) : editor.executions[x].stage # "done" }

\* cancelRequest: the source the field holds is cancelled when a request is in
\* progress.
cancelRequest(ed) ==
    IF ed.cancellationTokenSource # 0 /\ ed.isRequestInProgress
    THEN [ed EXCEPT !.executions[ed.cancellationTokenSource].token = "cancelled"]
    ELSE ed

\* A new send finds the executions that have not settled.
Superseded(executions) ==
    [x \in 1..Len(executions) |->
        IF editor.executions[x].stage # "done"
        THEN [executions[x] EXCEPT !.superseded = TRUE]
        ELSE executions[x]]

\* sendRequest up to its first await: the current request has a file, the
\* request in progress is cancelled, a new source is created and the request
\* is saved at once.
sendRequest ==
    /\ Len(editor.executions) < MaxSends
    /\ saveRequestAccepted(LiveUri(editor.currentRequest), TRUE)
    /\ LET cancelled == IF editor.isRequestInProgress THEN cancelRequest(editor) ELSE editor
           x == Len(editor.executions) + 1
       IN  editor' = [cancelled EXCEPT
                        !.cancellationTokenSource = x,
                        !.isRequestInProgress = TRUE,
                        !.executions = Append(Superseded(cancelled.executions),
                                              NewExecution(Len(calls) + 1))]

\* The catch and finally blocks, and the message posted at the end of the try
\* block: the token tested is the one the execution created, the source disposed
\* and the flag reset are the ones the fields hold now.
\* The try block throws when a step fails or the token is found cancelled.
Thrown(tokenCancelled, result) == tokenCancelled \/ result = "throws"

tryPosted(tokenCancelled, result) ==
    IF Thrown(tokenCancelled, result) THEN << >>
    ELSE IF result = "response" THEN << "responseReceived" >>
    ELSE << "error" >>

catchPostedAlways(tokenCancelled, result) ==
    IF tokenCancelled THEN << "requestCancelled" >> ELSE << "error" >>

catchPosted(tokenCancelled, result) ==
    IF ~Thrown(tokenCancelled, result) THEN << >>
    ELSE IF tokenCancelled THEN << "requestCancelled" >>
    ELSE << "error" >>

posted(tokenCancelled, result) ==
    tryPosted(tokenCancelled, result) \o catchPosted(tokenCancelled, result)

finally(ed, x, messages) ==
    LET held == ed.cancellationTokenSource
        disposed == IF held # 0
                    THEN [ed EXCEPT !.executions[held].sourceDisposed = TRUE]
                    ELSE ed
    IN  [disposed EXCEPT !.executions[x].stage = "done",
                         !.executions[x].call = 0,
                         !.executions[x].messages = @ \o messages,
                         !.executions[x].outcome = messages[Len(messages)],
                         !.isRequestInProgress = FALSE,
                         !.cancellationTokenSource = 0]

\* The write of the save settles: sendRequest goes on to open and send the file,
\* or catches the error of the write.
saveSettles(id, ok) ==
    /\ writeSettles(id, ok)
    /\ \E x \in InFlightExecutions :
          /\ editor.executions[x].stage = "saving"
          /\ editor.executions[x].call = id
          /\ editor' = IF ok
                       THEN [editor EXCEPT !.executions[x].stage = "sending",
                                           !.executions[x].call = 0]
                       ELSE finally(editor, x,
                                    posted(editor.executions[x].token = "cancelled", "throws"))

\* documentStore.send returns or throws, or a step before it throws.
SendResults == {"response", "skipped", "noResponse", "throws"}

sendSettles(x, result) ==
    /\ x \in InFlightExecutions
    /\ editor.executions[x].stage = "sending"
    /\ editor' = finally(editor, x, posted(editor.executions[x].token = "cancelled", result))
    /\ UNCHANGED <<coordinator, step>>

\* The cancel message of the webview, while an execution is in flight.
cancel ==
    /\ InFlightExecutions # {}
    /\ LET latest == CHOOSE x \in InFlightExecutions : \A y \in InFlightExecutions : y <= x
       IN  editor' = [cancelRequest(editor) EXCEPT !.executions[latest].cancelledByUser = TRUE]
    /\ UNCHANGED <<coordinator, step>>

EditorInit ==
    /\ writeDebounceTimers = NoTimers
    /\ pendingWrites = {}
    /\ calls = << >>
    /\ disk = [p \in RequestFiles |-> TRUE]
    /\ watcherQueue = << >>
    /\ step = Quiet
    /\ codec = << >>
    /\ tree = << >>
    /\ explorer = << >>
    /\ \E p \in RequestFiles : editor = Editor(p)

EditorNext ==
    \/ sendRequest /\ UNCHANGED <<codec, tree, explorer>>
    \/ \E id \in CallIds, ok \in BOOLEAN : saveSettles(id, ok) /\ UNCHANGED <<codec, tree, explorer>>
    \/ \E x \in 1..MaxSends, result \in SendResults :
          sendSettles(x, result) /\ UNCHANGED <<codec, tree, explorer>>
    \/ cancel /\ UNCHANGED <<codec, tree, explorer>>
    \/ \E id \in CallIds : graceTimerFires(id) /\ UNCHANGED <<codec, tree, editor, explorer>>
    \/ watcherDelivers /\ UNCHANGED <<codec, tree, editor, explorer>>

EditorSpec == EditorInit /\ [][EditorNext]_vars

-----------------------------------------------------------------------------
(* RequestEditorProvider and its webview: showRequest, the updateRequest   *)
(* message and the debounced save it asks for, and sendRequest.            *)

MaxEdits == 2

Message(type, payload) == [type |-> type, payload |-> payload]

\* showRequest: the request becomes the current one and is posted to the webview.
showRequest(request) ==
    /\ request # editor.currentRequest
    /\ Len(editor.toWebview) < MaxEdits
    /\ editor' = [editor EXCEPT
                    !.currentRequest = request, !.content = request,
                    !.toWebview = Append(@, Message("requestLoaded", request))]
    /\ UNCHANGED <<coordinator, step>>

\* The webview receives requestLoaded: state.request = message.payload.request.
requestLoaded ==
    /\ editor.toWebview # << >>
    /\ editor' = [editor EXCEPT !.webview = Head(editor.toWebview).payload,
                                !.toWebview = Tail(@)]
    /\ UNCHANGED <<coordinator, step>>

\* The user edits a field: the webview posts the request it shows.
updateRequest ==
    /\ Len(editor.toHost) < MaxEdits
    /\ Cardinality(editor.saves) + Len(editor.toHost) < MaxEdits
    /\ editor' = [editor EXCEPT !.toHost = Append(@, Message("updateRequest", editor.webview))]
    /\ UNCHANGED <<coordinator, step>>

\* handleMessage, case updateRequest: the payload takes the fileUri of the
\* current request, becomes the current request and is saved with the debounce.
handleMessage ==
    /\ editor.toHost # << >>
    /\ LET updatedRequest == Head(editor.toHost).payload
           fileUri == editor.currentRequest
       IN  /\ saveRequestAccepted(LiveUri(fileUri), FALSE)
           /\ editor' = [editor EXCEPT
                           !.content = updatedRequest,
                           !.toHost = Tail(@),
                           !.saves = @ \cup { [content |-> updatedRequest, file |-> fileUri] }]

\* Call id is the save that a call of sendRequest awaits.
Awaited(id) == \E x \in InFlightExecutions : editor.executions[x].call = id

EditInit ==
    /\ writeDebounceTimers = NoTimers
    /\ pendingWrites = {}
    /\ calls = << >>
    /\ disk = [p \in RequestFiles |-> TRUE]
    /\ watcherQueue = << >>
    /\ step = Quiet
    /\ codec = << >>
    /\ tree = << >>
    /\ explorer = << >>
    /\ editor = Editor(LoginFile)

\* The notifications of the watcher are left in its queue: handling them changes
\* neither the editor nor the saves.
EditNext ==
    \/ \E request \in RequestFiles : showRequest(request) /\ UNCHANGED <<codec, tree, explorer>>
    \/ requestLoaded /\ UNCHANGED <<codec, tree, explorer>>
    \/ updateRequest /\ UNCHANGED <<codec, tree, explorer>>
    \/ handleMessage /\ UNCHANGED <<codec, tree, explorer>>
    \/ \E id \in CallIds : debounceTimerFires(id) /\ UNCHANGED <<codec, tree, editor, explorer>>
    \/ \E id \in CallIds, ok \in BOOLEAN :
          writeSettles(id, ok) /\ UNCHANGED <<codec, tree, editor, explorer>>
    \/ \E id \in CallIds : graceTimerFires(id) /\ UNCHANGED <<codec, tree, editor, explorer>>

EditSpec == EditInit /\ [][EditNext]_vars

\* The user edits the request and sends it.
MaxEditedSends == 1

SendNext ==
    \/ updateRequest /\ UNCHANGED <<codec, tree, explorer>>
    \/ handleMessage /\ UNCHANGED <<codec, tree, explorer>>
    \/ \E id \in CallIds : debounceTimerFires(id) /\ UNCHANGED <<codec, tree, editor, explorer>>
    \/ \E id \in CallIds, ok \in BOOLEAN :
          ~Awaited(id) /\ writeSettles(id, ok) /\ UNCHANGED <<codec, tree, editor, explorer>>
    \/ /\ Len(editor.executions) < MaxEditedSends
       /\ sendRequest /\ UNCHANGED <<codec, tree, explorer>>
    \/ \E id \in CallIds, ok \in BOOLEAN : saveSettles(id, ok) /\ UNCHANGED <<codec, tree, explorer>>
    \/ \E x \in 1..MaxSends, result \in SendResults :
          sendSettles(x, result) /\ UNCHANGED <<codec, tree, explorer>>
    \/ \E id \in CallIds : graceTimerFires(id) /\ UNCHANGED <<codec, tree, editor, explorer>>
    \/ watcherDelivers /\ UNCHANGED <<codec, tree, editor, explorer>>

SendSpec == EditInit /\ [][SendNext]_vars

-----------------------------------------------------------------------------
(* CollectionsTreeProvider: the user deletes, renames and creates items,   *)
(* and FileSyncService does the work.  explorer holds the user's actions,  *)
(* oldest first, with what each of them logged, showed and raised.         *)

MaxActions == 2

ApiFolder == <<"api">>

Node(type, label, filePath) == [type |-> type, label |-> label, filePath |-> filePath]

Nodes ==
    { Node("request", <<"login">>, LoginFile), Node("request", <<"users">>, UsersFile),
      Node("collection", <<"api">>, ApiFolder) }

\* The request files at or under a path.
FilesAt(filePath) ==
    { p \in RequestFiles : p = filePath \/ SubSeq(p, 1, Len(filePath)) = filePath }

\* fs.delete and fs.rename throw for a path that does not exist, and may throw
\* for one that does.
CanSucceed(filePath) == \E p \in FilesAt(filePath) : disk[p]

Action(action, target, performed) ==
    [action |-> action, target |-> target, performed |-> performed, stage |-> "done",
     call |-> 0, failed |-> FALSE, result |-> Undefined, log |-> << >>, shown |-> << >>,
     raised |-> FALSE, selected |-> FALSE]

\* FileSyncService.deleteRequest and deleteCollection: what they return and log.
deleteRequest(uri, ok) ==
    [result |-> ok,
     log |-> IF ok THEN << >> ELSE << Log("error", "Failed to delete request", uri) >>]

deleteCollection(uri, ok) ==
    [result |-> ok,
     log |-> IF ok THEN << >> ELSE << Log("error", "Failed to delete collection", uri) >>]

\* sanitizeFileName: lower case, every run of other characters than a-z and 0-9
\* becomes one dash, a dash at either end is dropped.
Alphanumeric(lexeme) == lexeme \notin {SP, NL, "-", "!", "/", ".", ":"}

lowerCaseWord(lexeme) ==
    CASE lexeme = "Login" -> "login"
      [] lexeme = "New" -> "new"
      [] lexeme = "Name" -> "name"
      [] OTHER -> lexeme

RECURSIVE DropOthers(_)
DropOthers(str) ==
    IF str # << >> /\ ~Alphanumeric(str[1]) THEN DropOthers(Tail(str)) ELSE str

RECURSIVE Dashed(_)
Dashed(str) ==
    IF str = << >> THEN << >>
    ELSE IF Alphanumeric(str[1]) THEN << lowerCaseWord(str[1]) >> \o Dashed(Tail(str))
    ELSE << "-" >> \o Dashed(DropOthers(str))

sanitizeFileName(name) ==
    LET dashed == Dashed(name)
        start == IF dashed # << >> /\ dashed[1] = "-" THEN Tail(dashed) ELSE dashed
    IN  IF start # << >> /\ start[Len(start)] = "-"
        THEN SubSeq(start, 1, Len(start) - 1)
        ELSE start

\* FileSyncService.renameItem: the new uri, or undefined and a log entry.
renameTarget(uri, newName, collection) ==
    IF collection THEN SubSeq(uri, 1, Len(uri) - 1) \o newName
    ELSE SubSeq(uri, 1, Len(uri) - 2) \o sanitizeFileName(newName) \o << uri[Len(uri)] >>

renameService(uri, newName, collection, ok) ==
    [result |-> IF ok THEN renameTarget(uri, newName, collection) ELSE Undefined,
     log |-> IF ok THEN << >> ELSE << Log("error", "Failed to rename", uri) >>]

\* The notifications the watcher raises for the files of a path that are gone.
RECURSIVE Deleted(_)
Deleted(files) ==
    IF files = {} THEN << >>
    ELSE LET p == CHOOSE q \in files : TRUE
         IN  << Notification(p, "deleted", "explorer", 0, FALSE) >> \o Deleted(files \ {p})

Removed(filePath) == { p \in FilesAt(filePath) : disk[p] }

\* The calls whose timer is armed when their file is deleted: fs.delete leaves
\* the timers of writeDebounceTimers alone.
PendingAtDelete(cs, files) ==
    [i \in 1..Len(cs) |->
        IF calls[i].path \in files /\ calls[i].timer = "armed"
        THEN [cs[i] EXCEPT !.pendingAtDelete = TRUE]
        ELSE cs[i]]

\* deleteItem: nothing happens unless the user confirms; the result of the
\* service is not looked at.
deleteItem(node, confirm, ok) ==
    /\ Len(explorer) < MaxActions
    /\ ok => CanSucceed(node.filePath)
    /\ IF confirm # "Delete"
       THEN /\ explorer' = Append(explorer, Action("delete", node.filePath, FALSE))
            /\ UNCHANGED <<coordinator, step>>
       ELSE LET done == IF node.type = "request" THEN deleteRequest(node.filePath, ok)
                        ELSE deleteCollection(node.filePath, ok)
            IN  /\ explorer' = Append(explorer,
                                      [Action("delete", node.filePath, TRUE) EXCEPT
                                          !.failed = ~ok, !.result = done.result,
                                          !.log = done.log])
                /\ disk' = IF ok THEN [p \in RequestFiles |->
                                          IF p \in FilesAt(node.filePath) THEN FALSE ELSE disk[p]]
                           ELSE disk
                /\ watcherQueue' = IF ok THEN watcherQueue \o Deleted(Removed(node.filePath))
                                   ELSE watcherQueue
                /\ step' = [Step("ok", NoNotification,
                                 IF ok THEN refreshCollections ELSE << >>)
                            EXCEPT !.log = done.log]
                /\ calls' = IF ok THEN PendingAtDelete(calls, FilesAt(node.filePath)) ELSE calls
                /\ UNCHANGED <<writeDebounceTimers, pendingWrites>>

\* The names the input box can return: none, the label, a new name.
NewNames == { Undefined, <<"login">>, <<"New", SP, "Name", "!">> }

renameItem(node, newName, ok) ==
    /\ Len(explorer) < MaxActions
    /\ ok => CanSucceed(node.filePath)
    /\ IF newName = Undefined \/ newName = node.label
       THEN /\ explorer' = Append(explorer, Action("rename", node.filePath, FALSE))
            /\ UNCHANGED <<coordinator, step>>
       ELSE LET done == renameService(node.filePath, newName, node.type # "request", ok)
            IN  /\ explorer' = Append(explorer,
                                      [Action("rename", node.filePath, TRUE) EXCEPT
                                          !.failed = ~ok, !.result = done.result,
                                          !.log = done.log])
                /\ disk' = IF ok THEN [p \in RequestFiles |->
                                          IF p \in FilesAt(node.filePath) THEN FALSE ELSE disk[p]]
                           ELSE disk
                /\ watcherQueue' =
                     IF ok
                     THEN watcherQueue \o Deleted(Removed(node.filePath))
                          \o (IF node.type = "request"
                              THEN << Notification(done.result, "created", "explorer", 0, FALSE) >>
                              ELSE << >>)
                     ELSE watcherQueue
                /\ step' = [Step("ok", NoNotification,
                                 IF ok THEN refreshCollections ELSE << >>)
                            EXCEPT !.log = done.log]
                /\ UNCHANGED <<writeDebounceTimers, pendingWrites, calls>>

\* createNewRequest up to the await of the write: no name, no request.
createNewRequest(name) ==
    /\ Len(explorer) < MaxActions
    /\ \A k \in 1..Len(explorer) : explorer[k].stage = "done"
    /\ IF name = Undefined
       THEN /\ explorer' = Append(explorer, Action("create", NoPath, FALSE))
            /\ UNCHANGED <<coordinator, step>>
       ELSE LET fileUri == ApiFolder \o sanitizeFileName(name) \o <<".http">>
            IN  /\ createRequest(fileUri)
                /\ explorer' = Append(explorer,
                                      [Action("create", fileUri, TRUE) EXCEPT
                                          !.stage = "awaiting", !.call = Len(calls) + 1])

\* The write of createRequest settles: the request is selected, or the error
\* of the write leaves createNewRequest and the command.
createSettles(id, ok) ==
    /\ writeSettles(id, ok)
    /\ \E k \in 1..Len(explorer) :
          /\ explorer[k].stage = "awaiting"
          /\ explorer[k].call = id
          /\ explorer' = [explorer EXCEPT
                            ![k].stage = "done", ![k].call = 0, ![k].failed = ~ok,
                            ![k].raised = ~ok, ![k].selected = ok,
                            ![k].log = writeRequestLog(ok, explorer[k].target)]

ExplorerInit ==
    /\ writeDebounceTimers = NoTimers
    /\ pendingWrites = {}
    /\ calls = << >>
    /\ disk = [p \in RequestFiles |-> TRUE]
    /\ watcherQueue = << >>
    /\ step = Quiet
    /\ codec = << >>
    /\ tree = << >>
    /\ editor = << >>
    /\ explorer = << >>

ExplorerNext ==
    \/ \E node \in Nodes, confirm \in {"Delete", "none"}, ok \in BOOLEAN :
          deleteItem(node, confirm, ok) /\ UNCHANGED <<codec, tree, editor>>
    \/ \E node \in Nodes, newName \in NewNames, ok \in BOOLEAN :
          renameItem(node, newName, ok) /\ UNCHANGED <<codec, tree, editor>>
    \/ \E name \in {Undefined, <<SP, "Login">>} :
          createNewRequest(name) /\ UNCHANGED <<codec, tree, editor>>
    \/ \E id \in CallIds, ok \in BOOLEAN :
          createSettles(id, ok) /\ UNCHANGED <<codec, tree, editor>>
    \/ \E id \in CallIds : graceTimerFires(id) /\ UNCHANGED <<codec, tree, editor, explorer>>
    \/ watcherDelivers /\ UNCHANGED <<codec, tree, editor, explorer>>

ExplorerSpec == ExplorerInit /\ [][ExplorerNext]_vars

\* The user edits requests, which are saved after the debounce delay, and
\* deletes request files in the tree.
RequestNodes == { node \in Nodes : node.type = "request" }

DeleteNext ==
    \/ \E p \in RequestFiles :
          saveRequestAccepted(LiveUri(p), FALSE) /\ UNCHANGED <<codec, tree, editor, explorer>>
    \/ \E id \in CallIds : debounceTimerFires(id) /\ UNCHANGED <<codec, tree, editor, explorer>>
    \/ \E id \in CallIds, ok \in BOOLEAN :
          writeSettles(id, ok) /\ UNCHANGED <<codec, tree, editor, explorer>>
    \/ \E id \in CallIds : graceTimerFires(id) /\ UNCHANGED <<codec, tree, editor, explorer>>
    \/ watcherDelivers /\ UNCHANGED <<codec, tree, editor, explorer>>
    \/ \E node \in RequestNodes, ok \in BOOLEAN :
          deleteItem(node, "Delete", ok) /\ UNCHANGED <<codec, tree, editor>>

DeleteSpec == ExplorerInit /\ [][DeleteNext]_vars

-----------------------------------------------------------------------------
(* Properties.                                                             *)

Fired(name, uri) == \E k \in 1..Len(step.events) : step.events[k] = Event(name, uri)

Handled == step.notif

\* A location that holds no path in any form.
Unresolvable(request) ==
    \/ ~request.defined
    \/ /\ ~request.live
       /\ request.fsPath = NoPath
       /\ request.path = NoPath
       /\ request.str.scheme # "file"

UnresolvableLocations == { request \in Locations : Unresolvable(request) }

\* A file of the environments folder with the environment extension.
EnvironmentFile(uri) == uri[1] = ENVIRONMENTS_FOLDER /\ uri[Len(uri)] = ".env"

InFlight(p) == { c \in CallIds : calls[c].path = p /\ calls[c].write = "inflight" }

\* C1: the notification raised by the write of an immediate save fires no event:
\* no requestChanged and no collection re-scan.
C1_OwnWriteSuppressed ==
    Handled.origin = "immediate" => step.events = << >>

\* C1, within the grace window: the same for a notification handled while the
\* grace timer of the write that raised it is still armed.
C1_OwnWriteSuppressedInGraceWindow ==
    (/\ Handled.origin = "immediate"
     /\ Handled.call \in CallIds
     /\ calls[Handled.call].grace = "armed")
    => step.events = << >>

\* C2: a change of a request file by another process, made once a write of the
\* coordinator to that file has completed, fires requestChanged for the file
\* (the file being readable when the notification is handled).
C2_ExternalChangeReported ==
    (/\ Handled.origin = "external"
     /\ Handled.type = "changed"
     /\ Handled.afterOwnWrite
     /\ Handled.uri \in RequestFiles
     /\ disk[Handled.uri])
    => Fired("requestChanged", Handled.uri)

\* C3: when a non-immediate save supersedes a non-immediate save of the same path
\* whose timer is armed, the superseded call's content is never written, and the
\* superseding call's content is written exactly once when its timer fires (and
\* not before).
C3_DebounceCoalesces ==
    \A c \in CallIds :
        LET d == calls[c].supersededBy
        IN  (d # 0 /\ calls[d].kind = "debounced")
            => /\ calls[c].nwrites = 0
               /\ calls[d].path = calls[c].path
               /\ calls[d].timer = "armed" => calls[d].nwrites = 0
               /\ calls[d].timer = "fired" => calls[d].nwrites = 1

C3_Witness ==
    \E c \in CallIds :
        LET d == calls[c].supersededBy
        IN  /\ d # 0
            /\ calls[c].kind = "debounced"
            /\ calls[d].kind = "debounced"
            /\ calls[d].write = "done"

\* C4: an immediate save that arrives while a timer is armed for its path cancels
\* it: the superseded call's content is never written and the immediate call's
\* content is written exactly once.
C4_ImmediateCancelsPending ==
    \A c \in CallIds :
        LET d == calls[c].supersededBy
        IN  (d # 0 /\ calls[d].kind = "immediate")
            => /\ calls[c].nwrites = 0
               /\ calls[c].timer = "cleared"
               /\ calls[d].nwrites = 1

C4_Witness ==
    \E c \in CallIds :
        LET d == calls[c].supersededBy
        IN  /\ d # 0
            /\ calls[d].kind = "immediate"
            /\ calls[d].write = "done"

\* C5: no two writes to the same path are in flight at the same time.
C5_OneWriteInFlight ==
    \A p \in RequestFiles : Cardinality(InFlight(p)) <= 1

\* C6: a non-immediate save has returned with its timer armed and no write of it
\* started; an immediate save has returned only if its write has settled.
C6_ReturnOrder ==
    \A c \in CallIds :
        /\ calls[c].kind = "debounced"
             => /\ calls[c].returned
                /\ ~calls[c].startedAtReturn
                /\ calls[c].timer = "armed" => calls[c].write = "none"
        /\ (calls[c].kind = "immediate" /\ calls[c].returned)
             => /\ calls[c].write \in {"done", "failed"}
                /\ calls[c].startedAtReturn

C6_Witness ==
    /\ \E c \in CallIds :
          /\ calls[c].kind = "debounced"
          /\ calls[c].returned
          /\ calls[c].timer = "armed"
    /\ \E c \in CallIds :
          /\ calls[c].kind = "immediate"
          /\ calls[c].returned
          /\ calls[c].write = "done"

\* C7: saveRequest on a location that is absent or holds no path raises an error
\* and leaves the timers, the suppression set, the writes, the files and the
\* notifications as they were: a step is such an error, or it is not a step of
\* saveRequest on such a location.
C7_InvalidLocationRejected ==
    [][\/ /\ UNCHANGED coordinator
          /\ step'.outcome \in {"Request has no file URI", "Invalid URI object"}
       \/ \A request \in UnresolvableLocations, immediate \in BOOLEAN :
             ~saveRequest(request, immediate)]_vars

C7_Witness ==
    /\ step.outcome \in {"Request has no file URI", "Invalid URI object"}
    /\ \E c \in CallIds : calls[c].timer = "armed"
    /\ pendingWrites # {}

\* C8, as claimed: a change notification for a request file that is not
\* suppressed fires exactly one requestChanged for the file and nothing else.
C8_ExactlyOneRequestChanged ==
    (/\ Handled.type = "changed"
     /\ Handled.uri \in RequestFiles
     /\ Handled.uri \notin pendingWrites)
    => step.events = << Event("requestChanged", Handled.uri) >>

\* C8, amended: such a notification fires exactly one requestChanged for the file
\* when the file can be read and no event when it cannot, and never a re-scan.
C8_RequestChangedWhenReadable ==
    (/\ Handled.type = "changed"
     /\ Handled.uri \in RequestFiles
     /\ Handled.uri \notin pendingWrites)
    => step.events = IF disk[Handled.uri]
                     THEN << Event("requestChanged", Handled.uri) >>
                     ELSE << >>

C8_Witness ==
    /\ Handled.type = "changed"
    /\ Handled.uri \in RequestFiles
    /\ Handled.uri \notin pendingWrites
    /\ pendingWrites # {}
    /\ step.events = << Event("requestChanged", Handled.uri) >>

\* C9, as claimed: every deletion notification fires collectionsChanged.
C9_DeletionRescans ==
    Handled.type = "deleted" => Fired("collectionsChanged", NoPath)

\* C9, amended: a deletion notification fires exactly collectionsChanged, also for
\* a suppressed path, unless the file is an environment file, and then it fires
\* exactly environmentsChanged.
C9_DeletionRescansUnlessEnvironment ==
    Handled.type = "deleted"
    => step.events = IF EnvironmentFile(Handled.uri)
                     THEN << Event("environmentsChanged", NoPath) >>
                     ELSE << Event("collectionsChanged", NoPath) >>

C9_Witness ==
    /\ Handled.type = "deleted"
    /\ Handled.uri \in pendingWrites
    /\ step.events = << Event("collectionsChanged", NoPath) >>

\* C10: a create or change notification for an environment file fires exactly
\* environmentsChanged: no collectionsChanged and no requestChanged.
C10_EnvironmentChangeOnly ==
    (Handled.type \in {"created", "changed"} /\ EnvironmentFile(Handled.uri))
    => step.events = << Event("environmentsChanged", NoPath) >>

C10_Witness ==
    /\ Handled.type \in {"created", "changed"}
    /\ EnvironmentFile(Handled.uri)
    /\ pendingWrites # {}
    /\ step.events = << Event("environmentsChanged", NoPath) >>

\* C11: a save whose debounce timer was armed when dispose ran is never written:
\* its timer is cleared and never fires.
C11_DisposeCancelsPendingTimers ==
    \A c \in CallIds :
        calls[c].pendingAtDispose
        => /\ calls[c].timer = "cleared"
           /\ calls[c].write = "none"
           /\ calls[c].nwrites = 0

C11_Witness ==
    \E c, d \in CallIds :
        /\ calls[c].pendingAtDispose
        /\ calls[c].kind = "debounced"
        /\ calls[d].write = "done"
        /\ calls[d].grace = "fired"

\* C12: a path that is in the suppression set is eventually out of it: suppression
\* is never permanent, whether the write succeeds or fails.
C12_SuppressionEnds ==
    \A p \in RequestFiles : (p \in pendingWrites) ~> (p \notin pendingWrites)

C12_Witness ==
    \E c \in CallIds :
        /\ calls[c].write = "failed"
        /\ calls[c].grace = "fired"
        /\ calls[c].path \notin pendingWrites

\* The request model has been written and read back.
ReadBack == codec.stage \in {"parsed", "text2", "parsed2"}

AllEnabled(entries) == \A i \in 1..Len(entries) : entries[i].enabled

\* What a body says, whatever field holds it.
BodyContent(body) ==
    CASE body.type = "graphql" ->
            IF body.graphql = << >> THEN << >> ELSE body.graphql[1].query
      [] body.type = "formdata" /\ body.formData # << >> ->
            LET on == SelectSeq(body.formData, Enabled)
            IN  join([i \in 1..Len(on) |-> FormDataLine(on[i])], <<NL>>)
      [] body.type = "none" -> << >>
      [] OTHER -> OrEmpty(body.content)

\* C13: a model with a non-empty URL, a method of the enumeration and only enabled
\* headers and query parameters is read back with the same method, URL, headers,
\* query parameters, body type and body content.
C13_RoundTrip ==
    (/\ ReadBack
     /\ codec.request # NoModel
     /\ codec.request.url # << >>
     /\ codec.request.method \in HttpMethod
     /\ AllEnabled(codec.request.headers)
     /\ AllEnabled(codec.request.queryParams))
    => /\ codec.parsed.method = codec.request.method
       /\ codec.parsed.url = codec.request.url
       /\ codec.parsed.headers = codec.request.headers
       /\ codec.parsed.queryParams = codec.request.queryParams
       /\ codec.parsed.body.type = codec.request.body.type
       /\ BodyContent(codec.parsed.body) = BodyContent(codec.request.body)

\* C14: writing and reading the model that was read back gives that model again,
\* in every field.
C14_Idempotent ==
    codec.stage = "parsed2" => codec.parsed2 = codec.parsed

LoginRequest ==
    [name |-> <<"Login">>, description |-> Undefined, tags |-> Undefined,
     preRequest |-> Undefined, tests |-> Undefined, method |-> "POST", url |-> Url,
     queryParams |-> << >>, headers |-> << ContentTypeJson >>,
     body |-> Body("json", JsonUser, << >>, << >>)]

\* C15: the request Login (POST, https://api.example.com/login, one enabled header
\* Content-Type: application/json, JSON body {"user":"a"}) is read back with method
\* POST, that URL, exactly that header, enabled, and a json body of that content.
C15_LoginExample ==
    (ReadBack /\ codec.request = LoginRequest)
    => /\ codec.parsed.method = "POST"
       /\ codec.parsed.url = <<"https", ":", "//", "api.example.com/login">>
       /\ codec.parsed.headers =
             << Entry(<<"Content-Type">>, <<"application/json">>, TRUE) >>
       /\ codec.parsed.body.type = "json"
       /\ codec.parsed.body.content = JsonUser

C15_Witness ==
    /\ codec.stage = "parsed"
    /\ codec.request = LoginRequest
    /\ codec.parsed.name = <<"Login">>
    /\ codec.parsed.body.type = "json"

HasKey(entries, key) == \E i \in 1..Len(entries) : entries[i].key = key

\* C16: a model with a disabled header X and no enabled header X is read back
\* with no header X at all.
C16_DisabledHeaderAbsent ==
    (/\ ReadBack
     /\ codec.request # NoModel
     /\ HasKey(codec.request.headers, <<"X">>)
     /\ ~HasKey(SelectSeq(codec.request.headers, Enabled), <<"X">>))
    => ~HasKey(codec.parsed.headers, <<"X">>)

\* The classification of a body text that declares no content type.
Classify(text) ==
    IF text # << >> /\ text[1] \in {"{", "["} THEN "json"
    ELSE IF includes(text, <<"query">>) \/ includes(text, <<"mutation">>) THEN "graphql"
    ELSE "raw"

DeclaresContentType(entries) ==
    HasKey(entries, <<"Content-Type">>) \/ HasKey(entries, <<"content-type">>)

\* C17: a body text read with no declared content type is json when it begins with
\* { or [, else graphql when it contains query or mutation, else raw.
C17_BodyTypeInferred ==
    (/\ ReadBack
     /\ codec.parsed.body.type # "none"
     /\ ~DeclaresContentType(codec.parsed.headers))
    => codec.parsed.body.type = Classify(BodyContent(codec.parsed.body))

C17_Witness ==
    /\ codec.stage = "parsed"
    /\ ~DeclaresContentType(codec.parsed.headers)
    /\ codec.parsed.body.type = "graphql"
    /\ codec.parsed.body.graphql[1].query = <<"query", SP, "{", SP, "x", SP, "}">>

MethodWords ==
    HttpMethod \cup {"get", "post", "put", "delete", "patch", "head", "options",
                     "connect", "trace"}

\* A line of the text is a request line: a method word, blanks, and more.
HasRequestLine(text) ==
    \E i \in 1..Len(split(text, NL)) :
        LET line == trim(split(text, NL)[i])
        IN  Len(line) >= 3 /\ line[1] \in MethodWords /\ line[2] = SP

\* C18: every text is read as a model whose method is one of the nine; a text with
\* no request line gives GET, an empty URL and no body; the empty text gives the
\* name New Request and no headers and parameters besides.
C18_ParseDefaults ==
    ReadBack
    => /\ codec.parsed.method \in HttpMethod
       /\ ~HasRequestLine(codec.text)
            => /\ codec.parsed.method = "GET"
               /\ codec.parsed.url = << >>
               /\ codec.parsed.body.type = "none"
       /\ codec.text = << >>
            => /\ codec.parsed.name = <<"New Request">>
               /\ codec.parsed.headers = << >>
               /\ codec.parsed.queryParams = << >>

C18_Witness ==
    /\ codec.stage = "parsed"
    /\ codec.text # << >>
    /\ ~HasRequestLine(codec.text)
    /\ codec.parsed.headers # << >>
    /\ codec.parsed.method = "GET"

\* The nodes of a forest, at every depth.
RECURSIVE AllNodes(_)
AllNodes(nodes) ==
    UNION { {nodes[i]} \cup (IF nodes[i].type = "collection"
                             THEN AllNodes(nodes[i].children) ELSE {}) :
            i \in 1..Len(nodes) }

Walked == tree.stage \in {"walked", "rewalked"}

\* The forest of the walk made over the listing the state holds.
LastWalk == IF tree.stage = "walked" THEN tree.first ELSE tree.second

IsFolderNode(node)  == node.type = "collection"
IsRequestNode(node) == node.type = "request"

\* The nodes of the entries a folder's walk keeps, in the order of the listing.
EnumerationOrder(folderUri) ==
    LET kept(entry) == isSubFolder(entry) \/ isHttpEntry(entry)
        entries == SelectSeq(readDirectory(folderUri), kept)
    IN  [i \in 1..Len(entries) |->
            IF entries[i].type = "Directory"
            THEN parseFolder(joinPath(folderUri, entries[i].name), entries[i].name)
            ELSE parseHttpFile(joinPath(folderUri, entries[i].name), entries[i].name)]

FoldersThenFiles(nodes) == SelectSeq(nodes, IsFolderNode) \o SelectSeq(nodes, IsRequestNode)

\* The top-level folders, in the order of the listing.
CollectionsOrder ==
    LET entries == SelectSeq(readDirectory(rootUri), isCollection)
    IN  [i \in 1..Len(entries) |->
            parseFolder(joinPath(rootUri, entries[i].name), entries[i].name)]

\* The nodes whose label is list[1], then those whose label is list[2], ...
RECURSIVE ListedFrom(_, _, _)
ListedFrom(natural, list, k) ==
    IF k > Len(list) THEN << >>
    ELSE LET named(node) == node.label = list[k]
         IN  (IF indexOf(list, list[k]) = k THEN SelectSeq(natural, named) ELSE << >>)
             \o ListedFrom(natural, list, k + 1)

\* The listed nodes in the order of the list, then the others as they were.
Reordered(natural, order) ==
    LET list == IF order = NoOrder THEN << >> ELSE order
        unlisted(node) == indexOf(list, node.label) = 0
    IN  ListedFrom(natural, list, 1) \o SelectSeq(natural, unlisted)

ChildrenOf(folderUri) ==
    { node.children : node \in { n \in AllNodes(LastWalk) : n.id = toString(folderUri) } }

\* C19 as stated: at every level the listed entries come first in the order of
\* the list, and the unlisted ones follow in the order the file system
\* enumerated them.  It fails where the listing names a request file before a
\* sub-folder.
C19_ListedThenEnumerationOrder ==
    Walked =>
        /\ LastWalk = Reordered(CollectionsOrder, loadManifest.collections)
        /\ \A folderUri \in Folders \ {rootUri} :
              \A children \in ChildrenOf(folderUri) :
                 children = Reordered(EnumerationOrder(folderUri),
                                      loadCollectionMetadata(folderUri).order)

\* C19 amended: at every level the entries whose label is in the order list come
\* first in the order of the list, and the unlisted ones follow in their
\* natural order, which for the children of a folder is the sub-folders in the
\* order of the listing and then the request files in the order of the listing;
\* with no order list, or an empty one, that natural order is kept.
C19_ListedThenNaturalOrder ==
    Walked =>
        /\ LastWalk = Reordered(CollectionsOrder, loadManifest.collections)
        /\ \A folderUri \in Folders \ {rootUri} :
              \A children \in ChildrenOf(folderUri) :
                 children = Reordered(FoldersThenFiles(EnumerationOrder(folderUri)),
                                      loadCollectionMetadata(folderUri).order)

Labels(nodes) == [i \in 1..Len(nodes) |-> nodes[i].label]

\* Order [b, a] over a listing c, a, sub (labelled a), b: the walk yields b, the
\* folder a, the file a, and the unlisted Create; the manifest [zeta, api]
\* over a listing auth, api, zeta yields zeta, api, auth.
C19_Witness ==
    /\ tree.stage = "walked"
    /\ loadCollectionMetadata(ApiUri).order = << <<"b">>, <<"a">> >>
    /\ SelectSeq(readDirectory(ApiUri), isHttpEntry)[1].name = <<"c", ".rest">>
    /\ \E children \in ChildrenOf(ApiUri) :
          /\ Labels(children) = << <<"b">>, <<"a">>, <<"a">>, <<"Create">> >>
          /\ children[2].type = "collection"
          /\ children[3].type = "request"
    /\ loadManifest.collections = << <<"zeta">>, <<"api">> >>
    /\ Labels(CollectionsOrder) = << <<"auth">>, <<"api">>, <<"zeta">> >>
    /\ Labels(tree.first) = << <<"zeta">>, <<"api">>, <<"auth">> >>

\* The identifier given to each path by a walk.
Identifiers(nodes) == { <<node.filePath, node.id>> : node \in AllNodes(nodes) }

\* C20: two walks of the unchanged workspace, whatever the two orders in which
\* the file system lists its folders, give every path the same identifier, and
\* a path has one identifier only.
C20_IdentifierOfPath ==
    tree.stage = "rewalked" =>
        /\ Identifiers(tree.first) = Identifiers(tree.second)
        /\ \A x, y \in Identifiers(tree.first) \cup Identifiers(tree.second) :
              x[1] = y[1] => x[2] = y[2]

\* The second listing reverses the request files of api and the top-level
\* folders, the two forests differ, and nine paths were given an identifier.
C20_Witness ==
    /\ tree.stage = "rewalked"
    /\ tree.first # tree.second
    /\ Labels(tree.first) = << <<"api">>, <<"auth">>, <<"zeta">> >>
    /\ Labels(tree.second) = << <<"zeta">>, <<"auth">>, <<"api">> >>
    /\ tree.first[1].children # tree.second[3].children
    /\ Cardinality(Identifiers(tree.second)) = 9
    /\ <<fsPath(joinPath(SubUri, <<"d", ".http">>)),
         toString(joinPath(SubUri, <<"d", ".http">>))>> \in Identifiers(tree.second)

\* The walk reaches a folder when every name on the way to it is kept by the
\* loop that lists it and every folder above it can be read.
Kept(uri) ==
    IF Len(uri) = 2 THEN isCollection(DirEntry(uri[Len(uri)]))
    ELSE isSubFolder(DirEntry(uri[Len(uri)]))

Above(uri) == { SubSeq(uri, 1, k) : k \in 1..(Len(uri) - 1) }

Reached(folderUri) ==
    /\ \A k \in 2..Len(folderUri) : Kept(SubSeq(folderUri, 1, k))
    /\ \A above \in Above(folderUri) : ~Throws(above)

HasNode(uri) == \E node \in AllNodes(tree.first) : node.id = toString(uri)

Logged(message, uri) ==
    \E k \in 1..Len(tree.log) : tree.log[k] = LogError(message, toString(uri))

\* C21: a folder the walk reaches and cannot read is logged, neither it nor
\* anything below it has a node, and every folder the walk reaches and can read
\* has its node.
C21_UnreadableSubtreeOmitted ==
    tree.stage = "walked" =>
        \A folderUri \in DOMAIN tree.entries \ {rootUri} :
            Reached(folderUri) =>
                IF Throws(folderUri)
                THEN /\ Logged("Failed to parse folder", folderUri)
                     /\ ~HasNode(folderUri)
                     /\ \A f \in DOMAIN tree.entries :
                           folderUri \in Above(f) => ~HasNode(f)
                ELSE HasNode(folderUri)

\* An entry the walker is to leave out: a name that begins with a dot, a
\* sub-folder whose name begins with an underscore, the top-level environments
\* folder.
LeftOut(folderUri, entry) ==
    \/ startsWith(entry.name, <<".">>)
    \/ entry.type = "Directory" /\ folderUri # rootUri /\ startsWith(entry.name, <<"_">>)
    \/ entry.type = "Directory" /\ folderUri = rootUri /\ entry.name = <<ENVIRONMENTS_FOLDER>>

\* C22: no node of the tree is the node of an entry that is to be left out.
C22_NoNodeForLeftOut ==
    tree.stage = "walked" =>
        \A folderUri \in DOMAIN tree.entries :
            \A i \in 1..Len(tree.entries[folderUri]) :
                LeftOut(folderUri, tree.entries[folderUri][i])
                    => ~HasNode(joinPath(folderUri, tree.entries[folderUri][i].name))

\* C25: when the file write of a save or of createRequest fails, the failure is
\* logged as an error and nothing is raised to the caller that awaits the write.
C25_WriteFailureLoggedNotRaised ==
    [][\A id \in CallIds :
          writeSettles(id, FALSE) =>
              /\ step'.outcome = "ok"
              /\ \E k \in 1..Len(step'.log) : step'.log[k].level = "error"]_vars

\* C23: an execution that was superseded by a new send, or cancelled by the
\* user, while it was in flight reports requestCancelled when it settles.
C23_CancelledReportsCancelled ==
    \A x \in 1..Len(editor.executions) :
        LET execution == editor.executions[x]
        IN  (execution.stage = "done" /\ (execution.superseded \/ execution.cancelledByUser))
                => execution.outcome = "requestCancelled"

\* C24: a create, delete or rename of the user that failed with an I/O error
\* has shown exactly one error message.
C24_OneMessagePerFailure ==
    \A k \in 1..Len(explorer) :
        (explorer[k].stage = "done" /\ explorer[k].failed) => Len(explorer[k].shown) = 1

\* C26: a model with a non-blank pre-request script, written and read back, has a
\* pre-request script, and the text of that script is not read as the tests.
C26_PreRequestReadAsPreRequest ==
    (/\ ReadBack
     /\ codec.request # NoModel
     /\ Truthy(codec.request.preRequest)
     /\ trim(codec.request.preRequest) # << >>)
        => /\ Truthy(codec.parsed.preRequest)
           /\ ~(/\ codec.parsed.tests # Undefined
                /\ includes(codec.parsed.tests, <<"@pre">>))

\* The lines of the text that was read.
TextLines == split(codec.text, NL)

RequestLineAt(i) == requestLineMatch(trim(TextLines[i]))

\* The first line of the text of the form <METHOD> <url>; 0 when there is none.
FirstRequestLine ==
    IF \E i \in 1..Len(TextLines) : RequestLineAt(i)
    THEN CHOOSE i \in 1..Len(TextLines) :
            RequestLineAt(i) /\ \A j \in 1..(i - 1) : ~RequestLineAt(j)
    ELSE 0

\* The header a key: value line stands for.
HeaderOfLine(line) ==
    LET colonIndex == indexOf(trim(line), ":")
    IN  Entry(trim(SubSeq(trim(line), 1, colonIndex - 1)),
              trim(slice(trim(line), colonIndex + 1)), TRUE)

\* A text without script blocks has been read.
ReadPlain == ReadBack /\ ~includes(codec.text, <<"{{">>) /\ ~includes(codec.text, <<"}}">>)

\* C27: every header of the model read from a text comes from a key: value
\* line after the request line; a line before it does not become a header.
C27_NoHeaderBeforeRequestLine ==
    ReadPlain =>
        \A k \in 1..Len(codec.parsed.headers) :
            /\ FirstRequestLine # 0
            /\ \E i \in (FirstRequestLine + 1)..Len(TextLines) :
                  /\ includes(TextLines[i], <<":">>)
                  /\ HeaderOfLine(TextLines[i]) = codec.parsed.headers[k]

\* C28: the method, the URL and the query parameters of the model read from a
\* text are those of the first line of the form <METHOD> <url>.
C28_FirstRequestLineOnly ==
    (ReadPlain /\ FirstRequestLine # 0) =>
        LET trimmedLine == trim(TextLines[FirstRequestLine])
            parts == split(trim(slice(trimmedLine, 3)), "?")
        IN  /\ codec.parsed.method = toUpperCase(trimmedLine[1])
            /\ codec.parsed.url = parts[1]
            /\ codec.parsed.queryParams =
                  IF Len(parts) >= 2 /\ parts[2] # << >>
                  THEN URLSearchParams(parts[2]) ELSE << >>

\* The URL the parser holds when it reads line i: that of the last line of the
\* form <METHOD> <url> before it, empty when there is none.
UrlAt(i) ==
    IF \E j \in 1..(i - 1) : RequestLineAt(j)
    THEN LET last == CHOOSE j \in 1..(i - 1) :
                        RequestLineAt(j) /\ \A k \in (j + 1)..(i - 1) : ~RequestLineAt(k)
         IN  split(trim(slice(trim(TextLines[last]), 3)), "?")[1]
    ELSE << >>

BodyStartAt(i) == trim(TextLines[i]) = << >> /\ UrlAt(i) # << >>

\* The blank line that puts the parser in body mode: the first one read while
\* the URL is not empty; 0 when there is none.
BodyStart ==
    IF \E i \in 1..Len(TextLines) : BodyStartAt(i)
    THEN CHOOSE i \in 1..Len(TextLines) :
            BodyStartAt(i) /\ \A j \in 1..(i - 1) : ~BodyStartAt(j)
    ELSE 0

NotSeparator(line) == trim(line) # <<"###">>

\* The lines that follow the start of the body, record separators left out.
LinesOfBody == SelectSeq(SubSeq(TextLines, BodyStart + 1, Len(TextLines)), NotSeparator)

\* C29: the body of the model read from a text is made of every line after the
\* start of the body that is not a record separator, in order and unchanged,
\* lines that begin with # or // or look like a request line or a header included.
C29_BodyLinesVerbatim ==
    (ReadPlain /\ BodyStart # 0) =>
        BodyContent(codec.parsed.body) = trim(join(LinesOfBody, <<NL>>))

\* C30: the method of the node of every request file is the method that
\* parseHttpText reads from the text of the same file.
C30_NodeMethodIsParsedMethod ==
    Walked =>
        \A folderUri \in DOMAIN tree.entries :
            \A i \in 1..Len(tree.entries[folderUri]) :
                LET fileUri == joinPath(folderUri, tree.entries[folderUri][i].name)
                IN  \A node \in AllNodes(LastWalk) :
                        (IsRequestNode(node) /\ node.id = toString(fileUri))
                            => node.method = parseHttpText(readFile(fileUri)).method

\* C33: the path of every write that is in flight, or whose grace timer has not
\* fired, is in pendingWrites, also when two writes to the path overlap.
C33_SuppressedWhileWriting ==
    \A id \in CallIds :
        (calls[id].write = "inflight" \/ calls[id].grace = "armed")
            => calls[id].path \in pendingWrites

IsSave(c) == c.kind \in {"immediate", "debounced"}

\* C34: the file never holds the content of a save for its path when a save
\* requested later has written its content: the content of an earlier save does
\* not overwrite that of a later one.
C34_LaterSaveNotOverwritten ==
    \A i \in CallIds : \A j \in CallIds :
        (/\ i < j
         /\ IsSave(calls[i]) /\ IsSave(calls[j])
         /\ calls[i].path = calls[j].path
         /\ calls[j].write = "done")
            => ~calls[i].onDisk

\* C39: the write of createRequest never completes on a file that exists: a
\* request created under the name of an existing file leaves that file as it was.
C39_CreateNeverOverwrites ==
    [][\A id \in CallIds :
          (calls[id].kind = "create" /\ writeSettles(id, TRUE)) => ~disk[calls[id].path]]_vars

\* C35: a debounced save that was pending for a file when the file was deleted
\* never starts its write: the deleted file is not written again by it.
C35_NoWriteAfterDelete ==
    \A id \in CallIds : calls[id].pendingAtDelete => calls[id].write = "none"

\* C36: while an execution is in flight and its token is not cancelled, the
\* editor is marked in progress and holds the execution's source, which is not
\* disposed, so that the cancel message cancels the execution.
C36_InFlightIsCancellable ==
    \A x \in InFlightExecutions :
        editor.executions[x].token = "live"
            => /\ editor.isRequestInProgress
               /\ editor.cancellationTokenSource = x
               /\ ~editor.executions[x].sourceDisposed

TerminalMessages == {"responseReceived", "error", "requestCancelled"}

IsTerminal(message) == message \in TerminalMessages

\* C37: an execution that has settled has posted exactly one terminal message,
\* the last of its messages, and an execution in flight has posted none.
C37_OneTerminalMessage ==
    \A x \in 1..Len(editor.executions) :
        LET execution == editor.executions[x]
            terminal == SelectSeq(execution.messages, IsTerminal)
        IN  IF execution.stage = "done"
            THEN Len(terminal) = 1 /\ IsTerminal(execution.outcome)
            ELSE terminal = << >>

C37_Witness ==
    \E x \in 1..Len(editor.executions) : \E y \in 1..Len(editor.executions) :
        /\ editor.executions[x].stage = "done"
        /\ editor.executions[x].messages = << "requestProgress", "requestCancelled" >>
        /\ editor.executions[y].stage = "done"
        /\ editor.executions[y].messages = << "requestProgress", "responseReceived" >>

\* C38: every save asked for by an updateRequest message writes the content of
\* a request to the file of that request.
C38_ContentSavedToOwnFile ==
    \A save \in editor.saves : save.content = save.file

\* C31: a send saves the current request at once: the write of the save is
\* started by the send itself, no debounce timer stays armed for the file, and
\* the execution goes on to the engine only when that write has completed.
C31_SavedBeforeSent ==
    [][/\ Len(editor'.executions) = Len(editor.executions) + 1 =>
             LET id == editor'.executions[Len(editor'.executions)].call
             IN  /\ calls'[id].kind = "immediate"
                 /\ calls'[id].path = editor.currentRequest
                 /\ calls'[id].write = "inflight"
                 /\ \A i \in DOMAIN calls' :
                       calls'[i].path = editor.currentRequest => calls'[i].timer # "armed"
       /\ \A x \in DOMAIN editor.executions :
             (/\ Len(editor'.executions) = Len(editor.executions)
              /\ editor.executions[x].stage = "saving"
              /\ editor'.executions[x].stage = "sending")
                 => /\ calls[editor.executions[x].call].write = "inflight"
                    /\ calls'[editor.executions[x].call].write = "done"]_vars

C31_Witness ==
    /\ \E x \in DOMAIN editor.executions : editor.executions[x].stage = "sending"
    /\ \E id \in CallIds :
          /\ calls[id].kind = "debounced"
          /\ calls[id].timer = "cleared"
          /\ calls[id].supersededBy # 0
          /\ calls[calls[id].supersededBy].kind = "immediate"
          /\ calls[calls[id].supersededBy].write = "done"

\* C40: the request read from the file that duplicateRequest wrote has the
\* method, the URL, the headers, the query parameters and the body of the
\* request read from the file that was duplicated.
C40_CopyEqualsOriginal ==
    codec.stage = "copied" =>
        /\ codec.parsed2.method = codec.parsed.method
        /\ codec.parsed2.url = codec.parsed.url
        /\ codec.parsed2.headers = codec.parsed.headers
        /\ codec.parsed2.queryParams = codec.parsed.queryParams
        /\ codec.parsed2.body = codec.parsed.body


\* C32: once no notification is waiting and every re-scan that was started
\* has fired its event, the tree of the last collectionsChanged event holds
\* exactly the request files that are in the workspace.
C32_LastTreeMatchesFiles ==
    ( /\ watcherQueue = << >>
      /\ tree.scans # << >>
      /\ \A k \in 1..Len(tree.scans) : tree.scans[k].stage = "fired" )
    => tree.collectionsChanged = disk

=============================================================================
